---- MODULE Spec2Model ----
(***************************************************************************)
(* Model of the annotation store of electron-timer-rest:                   *)
(*   src/src/main/services/NotesManager.ts (class NotesManager).           *)
(* The store keeps two indexes, the book index (title -> bundle) and the   *)
(* flat index (annotation id -> annotation).                               *)
(*                                                                         *)
(* Strings that take part in collision suffixing (titles and ids) are      *)
(* records [base, sfx]: the text base followed by one "_<n>" per element   *)
(* of sfx, so that the input text "X_1" and the suffixed "X" + "_1" are    *)
(* the same value, as they are the same JavaScript string.                 *)
(***************************************************************************)
EXTENDS Integers, Sequences, FiniteSets, TLC

VARIABLES
    notes,      \* NotesManager.notes : Map<string, BookNote>
    books,      \* NotesManager.books : Map<string, ParsedBookData>
    disk,       \* the storage directory: file name -> content
    config,     \* NotesManager.config
    parsers,    \* NotesManager.parsers: the registered names, in insertion order
    clock,      \* the time that new Date() reads
    last,       \* the last call made on the store: operation, inputs, result, events
    run,        \* history: the ingestions of title X made in a row
    pending,    \* the importNotes calls that are suspended at an await or done
    isPolling,        \* QRLoginService.isPolling
    pollingInterval,  \* QRLoginService.pollingInterval: a timer, or 0 for undefined
    sceneId,          \* QRLoginService.sceneId, or 0 for undefined
    timers,           \* the interval timers not cleared: timer -> its pollCount
    checks,           \* the interval callbacks suspended at checkLoginStatus
    localStorage,     \* the items of the local storage
    listeners         \* whether the service still has its event listeners

\* the fields of the login service
loginVars == <<isPolling, pollingInterval, sceneId, timers, checks, localStorage, listeners>>

vars == <<notes, books, disk, config, parsers, clock, last, run, pending, loginVars>>

----------------------------------------------------------------------------
(* Bounds *)

MaxSize == 3         \* bundles plus annotations held by the store
MaxNotes == 2        \* annotations in one ingested bundle
MaxClock == 1        \* readings of the clock

----------------------------------------------------------------------------
(* Strings with collision suffixes *)

Str(b) == [base |-> b, sfx |-> <<>>]

\* `${s}_${counter}`
Suffix(s, counter) == [base |-> s.base, sfx |-> Append(s.sfx, counter)]

\* ResolveLoop with the suffix appended to the candidate, not to the original
RECURSIVE ResolveLoopNested(_, _, _, _)
ResolveLoopNested(keys, orig, cand, counter) ==
    IF cand \in keys
    THEN ResolveLoopNested(keys, orig, Suffix(cand, counter), counter + 1)
    ELSE cand

\* let x = orig; let counter = 1; while (has(x)) { x = `${orig}_${counter}`; counter++ }
RECURSIVE ResolveLoop(_, _, _, _)
ResolveLoop(keys, orig, cand, counter) ==
    IF cand \in keys
    THEN ResolveLoop(keys, orig, Suffix(orig, counter), counter + 1)
    ELSE cand

Resolve(keys, orig) == ResolveLoop(keys, orig, orig, 1)

----------------------------------------------------------------------------
(* Maps *)

EmptyMap == [k \in {} |-> 0]

\* Map.set(key, value)
MapSet(m, key, value) == [k \in DOMAIN m \cup {key} |-> IF k = key THEN value ELSE m[k]]

\* Map.delete(key)
MapDelete(m, key) == [k \in DOMAIN m \ {key} |-> m[k]]

\* Array.prototype.findIndex(n => n.id === id); 0 stands for -1
FindIndex(list, id) ==
    IF \E j \in 1..Len(list) : list[j].id = id
    THEN CHOOSE j \in 1..Len(list) :
            /\ list[j].id = id
            /\ \A k \in 1..(j - 1) : list[k].id # id
    ELSE 0

\* Array.prototype.filter(n => n.id !== id)
RECURSIVE FilterOutId(_, _)
FilterOutId(list, id) ==
    IF list = <<>> THEN <<>>
    ELSE IF Head(list).id # id
         THEN <<Head(list)>> \o FilterOutId(Tail(list), id)
         ELSE FilterOutId(Tail(list), id)

----------------------------------------------------------------------------
(* storeParsedData *)

\* data.notes.map(note => ({ ...note, bookTitle }))
StampBookTitle(list, bookTitle) ==
    [i \in 1..Len(list) |-> [list[i] EXCEPT !.bookTitle = bookTitle]]

\* StoreOneNote without the collision loop: the id is kept as it came
StoreOneNoteOverwrite(st, i) ==
    LET note == st.list[i]
    IN  [flat |-> MapSet(st.flat, note.id, note), list |-> st.list]

\* One iteration of updatedData.notes.forEach(...): st = [flat, list] holds the
\* flat index and the stored bundle's notes array, both changed in place.
StoreOneNote(st, i) ==
    LET note        == st.list[i]
        noteId      == Resolve(DOMAIN st.flat, note.id)
        updatedNote == [note EXCEPT !.id = noteId]
        noteIndex   == FindIndex(st.list, note.id)
    IN  [flat |-> MapSet(st.flat, noteId, updatedNote),
         list |-> IF noteIndex # 0
                  THEN [st.list EXCEPT ![noteIndex] = updatedNote]
                  ELSE st.list]

RECURSIVE StoreNotesFrom(_, _)
StoreNotesFrom(st, i) ==
    IF i > Len(st.list) THEN st
    ELSE StoreNotesFrom(StoreOneNote(st, i), i + 1)

\* The title under which storeParsedData stores data
ResolvedTitle(bs, data) == Resolve(DOMAIN bs, data.metadata.title)

\* The whole of storeParsedData: the new [books, notes]
StoreParsedData(bs, ns, data) ==
    LET bookTitle   == ResolvedTitle(bs, data)
        updatedData == [metadata |-> [data.metadata EXCEPT !.title = bookTitle],
                        notes    |-> StampBookTitle(data.notes, bookTitle)]
        st          == StoreNotesFrom([flat |-> ns, list |-> updatedData.notes], 1)
    IN  [books |-> MapSet(bs, bookTitle, [updatedData EXCEPT !.notes = st.list]),
         notes |-> st.flat]

----------------------------------------------------------------------------
(* Inputs *)

InputTitles == {Str("X")}
ShelfTitles == {Str("X"), Suffix(Str("X"), 1)}
InputIds    == {Str("a"), Str("b")}

\* The i-th annotation of an input bundle has its own content and kind
ContentAt(i) == IF i = 1 THEN "c1" ELSE IF i = 2 THEN "c2" ELSE "c4"
KindAt(i)    == IF i = 1 THEN "highlight" ELSE IF i = 2 THEN "note" ELSE "bookmark"

ChapterAt(i) == IF i = 2 THEN "Ch1" ELSE ""
TagsAt(i)    == IF i = 2 THEN <<"JS">> ELSE <<>>
SourceAt(i)  == IF i = 1 THEN "duokan" ELSE IF i = 2 THEN "wechat" ELSE "manual"

\* BookNote; updatedAt = 0 stands for an absent updatedAt, chapter = "" for
\* an absent chapter and tags = <<>> for absent tags
InputNote(id, bookTitle, i) ==
    [id |-> id, bookTitle |-> bookTitle, noteType |-> KindAt(i),
     content |-> ContentAt(i), updatedAt |-> 0,
     chapter |-> ChapterAt(i), tags |-> TagsAt(i), source |-> SourceAt(i)]

\* The id lists of the input bundles: no annotation, one, two with the same
\* id, two with different ids, ...
RECURSIVE IdLists(_)
IdLists(n) ==
    IF n = 0 THEN {<<>>}
    ELSE LET shorter == IdLists(n - 1)
         IN  shorter \cup
             {Append(q, x) : q \in {r \in shorter : Len(r) = n - 1},
                             x \in IF n = 1 THEN {Str("a")} ELSE InputIds}

\* ParsedBookData handed to storeParsedData: notes that carry the bundle's
\* title, and a totalNotes that is the length of the list or 0
BundlesTitled(titles) ==
    {[metadata |-> [title |-> t, totalNotes |-> n * Len(l)],
      notes    |-> [i \in 1..Len(l) |-> InputNote(l[i], t, i)]] :
        t \in titles, n \in {0, 1}, l \in IdLists(MaxNotes)}

InputBundles == BundlesTitled(InputTitles)
ShelfBundles == BundlesTitled(ShelfTitles)

\* Partial<BookNote> given to updateNote
UpdateSet ==
    {[content |-> "c3"], [bookTitle |-> Str("Z")], [id |-> Str("b")]}

NoKey  == Str("")

\* an emitted event
Event(name, key, count) == [name |-> name, key |-> key, count |-> count]

NoData == [metadata |-> [title |-> NoKey, totalNotes |-> 0], notes |-> <<>>]
NoArgs == [none |-> TRUE]

\* A call: key is the id or title it was given (for an ingestion, the title
\* the bundle was stored under), data the bundle it was given, args its other
\* arguments and the outcomes of its I/O, ret its result, ev the events emitted
Call(op, key, data, args, ret, ev) ==
    [op |-> op, key |-> key, data |-> data, args |-> args, ret |-> ret, ev |-> ev]

\* The title whose ingestions run records
TitleX == Str("X")

\* run.from: the titles held when the row of ingestions of TitleX began;
\* run.seen: the titles under which they were stored, in order
RunReset(titles) == [from |-> titles, seen |-> <<>>]

RunAfterIngest(r, bs, data) ==
    IF data.metadata.title = TitleX
    THEN [r EXCEPT !.seen = Append(@, ResolvedTitle(bs, data))]
    ELSE RunReset(DOMAIN bs \cup {ResolvedTitle(bs, data)})

----------------------------------------------------------------------------
(* Store operations *)

\* this.parsers, in the order initializeParsers registers them
Parsers == <<"duokan", "wechat">>

\* no importNotes call has been made
NoImports == pending = <<>>

\* new QRLoginService(config)
NewQRLoginService ==
    /\ isPolling = FALSE
    /\ pollingInterval = 0
    /\ sceneId = 0
    /\ timers = EmptyMap
    /\ checks = {}
    /\ localStorage = EmptyMap
    /\ listeners = TRUE

Init ==
    /\ notes = EmptyMap
    /\ books = EmptyMap
    /\ disk = EmptyMap
    /\ config = [autoSave |-> FALSE]
    /\ parsers = Parsers
    /\ clock = 0
    /\ last = Call("new", NoKey, NoData, NoArgs, "void", <<>>)
    /\ run = RunReset({})
    /\ NoImports
    /\ NewQRLoginService

\* the bundles and annotations the store holds
StoreSize == Cardinality(DOMAIN books) + Cardinality(DOMAIN notes)

\* manager['storeParsedData'](data), as the tests and the OCR path call it
IngestCall(data) ==
    /\ StoreSize + 1 + Len(data.notes) <= MaxSize
    /\ LET r == StoreParsedData(books, notes, data)
       IN  /\ books' = r.books
           /\ notes' = r.notes
    /\ last' = Call("storeParsedData", ResolvedTitle(books, data), data, NoArgs, "void", <<>>)
    /\ UNCHANGED <<disk, config, parsers, clock>>

Ingest(data) ==
    /\ IngestCall(data)
    /\ UNCHANGED <<run, pending, loginVars>>

\* { ...note, ...updates, updatedAt: new Date() }
MergeNote(note, updates, now) ==
    [f \in DOMAIN note |->
        IF f = "updatedAt" THEN now
        ELSE IF f \in DOMAIN updates THEN updates[f] ELSE note[f]]

UpdateNoteBooks(bs, note, noteId, updatedNote) ==
    IF note.bookTitle \in DOMAIN bs
    THEN LET book      == bs[note.bookTitle]
             noteIndex == FindIndex(book.notes, noteId)
         IN  IF noteIndex # 0
             THEN [bs EXCEPT ![note.bookTitle].notes[noteIndex] = updatedNote]
             ELSE bs
    ELSE bs

\* updateNote while fewer than maxClock stamps have been handed out
UpdateNoteUpTo(maxClock, noteId, updates) ==
    /\ UNCHANGED <<disk, config, parsers, run, pending, loginVars>>
    /\ IF noteId \notin DOMAIN notes
       THEN /\ UNCHANGED <<notes, books, clock>>
            /\ last' = Call("updateNote", noteId, NoData, updates, "false", <<>>)
       ELSE LET note        == notes[noteId]
                updatedNote == MergeNote(note, updates, clock + 1)
            IN  /\ clock < maxClock
                /\ clock' = clock + 1
                /\ notes' = MapSet(notes, noteId, updatedNote)
                /\ books' = UpdateNoteBooks(books, note, noteId, updatedNote)
                /\ last' = Call("updateNote", noteId, NoData, updates, "true",
                                <<Event("notes:updated", noteId, 0)>>)

UpdateNote(noteId, updates) == UpdateNoteUpTo(MaxClock, noteId, updates)

DeleteNoteBooks(bs, note, noteId) ==
    IF note.bookTitle \in DOMAIN bs
    THEN LET filtered == FilterOutId(bs[note.bookTitle].notes, noteId)
         IN  [bs EXCEPT ![note.bookTitle].notes = filtered,
                        ![note.bookTitle].metadata.totalNotes = Len(filtered)]
    ELSE bs

\* DeleteNote without the early return for an unknown id
DeleteNoteUnguarded(noteId) ==
    /\ UNCHANGED <<disk, config, parsers, clock, run, pending, loginVars>>
    /\ notes' = MapDelete(notes, noteId)
    /\ books' = IF noteId \in DOMAIN notes
                THEN DeleteNoteBooks(books, notes[noteId], noteId)
                ELSE books
    /\ last' = Call("deleteNote", noteId, NoData, NoArgs, "true",
                    <<Event("notes:deleted", noteId, 0)>>)

DeleteNote(noteId) ==
    /\ UNCHANGED <<disk, config, parsers, clock, run, pending, loginVars>>
    /\ IF noteId \notin DOMAIN notes
       THEN /\ UNCHANGED <<notes, books>>
            /\ last' = Call("deleteNote", noteId, NoData, NoArgs, "false", <<>>)
       ELSE /\ notes' = MapDelete(notes, noteId)
            /\ books' = DeleteNoteBooks(books, notes[noteId], noteId)
            /\ last' = Call("deleteNote", noteId, NoData, NoArgs, "true",
                            <<Event("notes:deleted", noteId, 0)>>)

\* book.notes.forEach(note => this.notes.delete(note.id))
DeleteBookNotes(ns, list) ==
    [k \in DOMAIN ns \ {list[i].id : i \in 1..Len(list)} |-> ns[k]]

DeleteBookCall(bookTitle) ==
    /\ UNCHANGED <<disk, config, parsers, clock>>
    /\ IF bookTitle \notin DOMAIN books
       THEN /\ UNCHANGED <<notes, books>>
            /\ last' = Call("deleteBook", bookTitle, NoData, NoArgs, "false", <<>>)
       ELSE /\ notes' = DeleteBookNotes(notes, books[bookTitle].notes)
            /\ books' = MapDelete(books, bookTitle)
            /\ last' = Call("deleteBook", bookTitle, NoData, NoArgs, "true", <<>>)

DeleteBook(bookTitle) ==
    /\ DeleteBookCall(bookTitle)
    /\ UNCHANGED <<run, pending, loginVars>>

\* getNoteById, getNotesByBook
GetNoteById(ns, noteId) == IF noteId \in DOMAIN ns THEN <<ns[noteId]>> ELSE <<>>
GetNotesByBook(bs, bookTitle) == IF bookTitle \in DOMAIN bs THEN bs[bookTitle].notes ELSE <<>>

\* Arguments of the calls: every key held, and one fixed id and title that
\* the index may or may not hold
IdArgs    == DOMAIN notes \cup {Str("a")}
TitleArgs == DOMAIN books \cup {Str("X")}

Next ==
    \/ \E data \in InputBundles : Ingest(data)
    \/ \E noteId \in IdArgs, updates \in UpdateSet : UpdateNote(noteId, updates)
    \/ \E noteId \in IdArgs : DeleteNote(noteId)
    \/ \E bookTitle \in TitleArgs : DeleteBook(bookTitle)

Spec == Init /\ [][Next]_vars

\* Books coming and going only: ingestions and deleteBook
ShelfIngest(data) ==
    /\ IngestCall(data)
    /\ run' = RunAfterIngest(run, books, data)
    /\ UNCHANGED <<pending, loginVars>>

ShelfDeleteBook(bookTitle) ==
    /\ DeleteBookCall(bookTitle)
    /\ run' = RunReset(DOMAIN books')
    /\ UNCHANGED <<pending, loginVars>>

NextShelf ==
    \/ \E data \in ShelfBundles : ShelfIngest(data)
    \/ \E bookTitle \in TitleArgs : ShelfDeleteBook(bookTitle)

SpecShelf == Init /\ [][NextShelf]_vars

TypeOK == StoreSize <= MaxSize

----------------------------------------------------------------------------
(* Files: importNotes, saveToStorage, loadFromStorage, exportNotes *)

\* Titles of the bundles read from files; "X?" holds a character that
\* sanitizeFileName replaces
FileTitles == {Str("X"), Str("X?")}

\* fileName.replace(/[<>:"/\\|?*]/g, '_').replace(/\s+/g, '_') on the texts used
SanitizeText(text) ==
    IF text = "X?" THEN "X_"
    ELSE IF text = "X Y" THEN "X_Y"
    ELSE text

SanitizeFileName(fileName) == [fileName EXCEPT !.base = SanitizeText(@)]

\* `${sanitizeFileName(title)}.json` and `${sanitizeFileName(title)}_${time}.md`
JsonFileName(title) == [stem |-> SanitizeFileName(title), time |-> 0, ext |-> "json"]
MdFileName(title, time) == [stem |-> SanitizeFileName(title), time |-> time, ext |-> "md"]

\* The content of a file: the text JSON.stringify(data) writes and JSON.parse
\* reads back, a text that JSON.parse rejects, or a rendered document
JsonStringify(data) == [kind |-> "json", value |-> data]
BadText == [kind |-> "bad", value |-> NoData]
Rendered(book) == [kind |-> "md", value |-> book.metadata]

\* what parser.parse returns: totalNotes is the length of the notes list
ParsedBundle(title, ids) ==
    [metadata |-> [title |-> title, totalNotes |-> Len(ids)],
     notes    |-> [i \in 1..Len(ids) |-> InputNote(ids[i], title, i)]]

ParsedBundles ==
    {ParsedBundle(title, <<Str("a")>>) : title \in FileTitles}
    \cup {ParsedBundle(Str("X"), <<>>)}

\* The parserType hints; "" stands for none, "kindle" is registered only by
\* addParser
ParserTypes == {"", "wechat", "kindle"}

\* getParser(content, parserType): the name of the parser, "" for undefined;
\* valid is the set of parsers whose validate(content) is true
\* getParser that asks validate even when a hint is given
GetParserValidatingHint(valid, parserType) ==
    IF parserType # ""
    THEN IF (\E i \in 1..Len(parsers) : parsers[i] = parserType) /\ parserType \in valid
         THEN parserType ELSE ""
    ELSE IF \E i \in 1..Len(parsers) : parsers[i] \in valid
         THEN parsers[CHOOSE i \in 1..Len(parsers) :
                         /\ parsers[i] \in valid
                         /\ \A j \in 1..(i - 1) : parsers[j] \notin valid]
         ELSE ""

GetParser(valid, parserType) ==
    IF parserType # ""
    THEN IF \E i \in 1..Len(parsers) : parsers[i] = parserType THEN parserType ELSE ""
    ELSE IF \E i \in 1..Len(parsers) : parsers[i] \in valid
         THEN parsers[CHOOSE i \in 1..Len(parsers) :
                         /\ parsers[i] \in valid
                         /\ \A j \in 1..(i - 1) : parsers[j] \notin valid]
         ELSE ""

\* A file given to importNotes: whether fs.readFile succeeds, which parsers'
\* validate accepts its content, and the bundle parse makes of it
SourceFiles ==
    [readable : {TRUE}, valid : {{}, {"kindle"}, {"wechat", "kindle"}, {"duokan", "wechat"}},
     bundle : ParsedBundles]
    \cup [readable : {FALSE}, valid : {{}}, bundle : {NoData}]

\* saveToStorage(data); writeOk is whether fs.mkdir and fs.writeFile succeed.
\* A failure is caught and logged.
SaveToStorage(d, data, writeOk) ==
    IF writeOk THEN MapSet(d, JsonFileName(data.metadata.title), JsonStringify(data)) ELSE d

ErrorEvent(message) == Event("error", Str(message), 0)

\* Map.set(name, parser): a new name goes last, a held name keeps its place
MapSetKey(keys, name) ==
    IF \E i \in 1..Len(keys) : keys[i] = name THEN keys ELSE Append(keys, name)

\* the names given to addParser
AddedParsers == {"kindle", "wechat"}

AddParser(name) ==
    /\ parsers' = MapSetKey(parsers, name)
    /\ last' = Call("addParser", Str(name), NoData, NoArgs, "void", <<>>)
    /\ UNCHANGED <<notes, books, disk, config, clock, run, pending, loginVars>>

ImportArgs(file, parserType, writeOk) ==
    [parserType |-> parserType, parser |-> GetParser(file.valid, parserType),
     writeOk |-> writeOk, readable |-> file.readable, valid |-> file.valid]

\* importNotes without the `if (!parser)` check
ImportNotesWithoutParser(file, parserType, writeOk) ==
    LET parser     == GetParser(file.valid, parserType)
        parsedData == file.bundle
        args       == ImportArgs(file, parserType, writeOk)
    IN  /\ UNCHANGED <<config, parsers, clock, run, pending, loginVars>>
        /\ IF ~file.readable
           THEN /\ UNCHANGED <<notes, books, disk>>
                /\ last' = Call("importNotes", NoKey, NoData, args, "throw",
                                <<ErrorEvent("Failed to import notes")>>)
           ELSE /\ StoreSize + 1 + Len(parsedData.notes) <= MaxSize
                /\ LET r == StoreParsedData(books, notes, parsedData)
                   IN  /\ books' = r.books
                       /\ notes' = r.notes
                /\ disk' = IF config.autoSave
                           THEN SaveToStorage(disk, parsedData, writeOk)
                           ELSE disk
                /\ last' = Call("importNotes", ResolvedTitle(books, parsedData), parsedData,
                                args, "data",
                                <<Event("notes:imported", parsedData.metadata.title,
                                        Len(parsedData.notes))>>)

ImportNotes(file, parserType, writeOk) ==
    LET parser     == GetParser(file.valid, parserType)
        parsedData == file.bundle
        args       == ImportArgs(file, parserType, writeOk)
    IN  /\ UNCHANGED <<config, parsers, clock, run, pending, loginVars>>
        /\ IF ~file.readable \/ parser = ""
           THEN /\ UNCHANGED <<notes, books, disk>>
                /\ last' = Call("importNotes", NoKey, NoData, args, "throw",
                                <<ErrorEvent("Failed to import notes")>>)
           ELSE /\ StoreSize + 1 + Len(parsedData.notes) <= MaxSize
                /\ LET r == StoreParsedData(books, notes, parsedData)
                   IN  /\ books' = r.books
                       /\ notes' = r.notes
                /\ disk' = IF config.autoSave
                           THEN SaveToStorage(disk, parsedData, writeOk)
                           ELSE disk
                /\ last' = Call("importNotes", ResolvedTitle(books, parsedData), parsedData,
                                args, "data",
                                <<Event("notes:imported", parsedData.metadata.title,
                                        Len(parsedData.notes))>>)

\* The body of the for loop of loadFromStorage for one file; st = [books,
\* notes, thrown]. unreadable is the file whose fs.readFile fails, if any.
LoadOneFile(st, file, unreadable) ==
    IF st.thrown \/ file.ext # "json" THEN st
    ELSE IF file = unreadable \/ disk[file].kind # "json"
         THEN [st EXCEPT !.thrown = TRUE]
         ELSE LET r == StoreParsedData(st.books, st.notes, disk[file].value)
              IN  [books |-> r.books, notes |-> r.notes, thrown |-> FALSE]

RECURSIVE LoadFiles(_, _, _)
LoadFiles(st, files, unreadable) ==
    IF files = <<>> THEN st
    ELSE LoadFiles(LoadOneFile(st, Head(files), unreadable), Tail(files), unreadable)

\* the orders in which fs.readdir may list the directory
Listings(names) ==
    {q \in [1..Cardinality(names) -> names] : \A i, j \in DOMAIN q : i # j => q[i] # q[j]}

NoFile == [stem |-> NoKey, time |-> 0, ext |-> ""]

\* the bundles and annotations the .json files of the directory hold
DiskSize(d) ==
    LET Size(f) == IF d[f].kind = "json" THEN 1 + Len(d[f].value.notes) ELSE 0
        RECURSIVE Sum(_)
        Sum(fs) == IF fs = {} THEN 0
                   ELSE LET f == CHOOSE x \in fs : TRUE IN Size(f) + Sum(fs \ {f})
    IN  Sum(DOMAIN d)

LoadFromStorage(readdirOk, files, unreadable) ==
    /\ UNCHANGED <<disk, config, parsers, clock, run, pending, loginVars>>
    /\ StoreSize + DiskSize(disk) <= MaxSize
    /\ IF ~readdirOk
       THEN /\ UNCHANGED <<notes, books>>
            /\ last' = Call("loadFromStorage", NoKey, NoData,
                            [readdirOk |-> FALSE, files |-> <<>>, unreadable |-> NoFile],
                            "void", <<>>)
       ELSE LET st == LoadFiles([books |-> books, notes |-> notes, thrown |-> FALSE],
                                files, unreadable)
            IN  /\ books' = st.books
                /\ notes' = st.notes
                /\ last' = Call("loadFromStorage", NoKey, NoData,
                                [readdirOk |-> TRUE, files |-> files, unreadable |-> unreadable],
                                "void", <<>>)

\* this.formatters
Formatters == {"markdown", "default"}
Formats    == {"markdown", "pdf"}

\* exportNotes without the `if (!book)` check
ExportNotesAbsentBook(bookTitle, format, writeOk) ==
    /\ UNCHANGED <<notes, books, disk, config, parsers, clock, run, pending, loginVars>>
    /\ last' = Call("exportNotes", bookTitle, NoData,
                    [format |-> format, writeOk |-> writeOk],
                    IF bookTitle \in DOMAIN books /\ (format \notin Formatters \/ ~writeOk)
                    THEN "throw" ELSE "path",
                    <<>>)

ExportNotes(bookTitle, format, writeOk) ==
    /\ UNCHANGED <<notes, books, config, parsers, clock, run, pending, loginVars>>
    /\ LET args == [format |-> format, writeOk |-> writeOk]
       IN  IF bookTitle \notin DOMAIN books \/ format \notin Formatters \/ ~writeOk
           THEN /\ UNCHANGED disk
                /\ last' = Call("exportNotes", bookTitle, NoData, args, "throw",
                                <<ErrorEvent("Failed to export notes")>>)
           ELSE /\ disk' = MapSet(disk, MdFileName(bookTitle, clock), Rendered(books[bookTitle]))
                /\ last' = Call("exportNotes", bookTitle, NoData, args, "path",
                                <<[name |-> "notes:exported", format |-> format,
                                   filePath |-> MdFileName(bookTitle, clock)]>>)

\* The storage directory as the constructor may find it: any of two files,
\* each a persisted bundle or a text that is not JSON
FoundFiles == {JsonFileName(Str("X")), JsonFileName(Suffix(Str("X"), 1))}
FoundBundle == ParsedBundle(Str("X"), <<Str("a")>>)
FoundDisks ==
    UNION {[names -> {JsonStringify(FoundBundle), BadText}] : names \in SUBSET FoundFiles}

InitIO ==
    /\ notes = EmptyMap
    /\ books = EmptyMap
    /\ disk \in FoundDisks
    /\ config \in [autoSave : BOOLEAN]
    /\ parsers = Parsers
    /\ clock = 0
    /\ last = Call("new", NoKey, NoData, NoArgs, "void", <<>>)
    /\ run = RunReset({})
    /\ NoImports
    /\ NewQRLoginService

NextIO ==
    \/ \E file \in SourceFiles, parserType \in ParserTypes,
          writeOk \in (IF config.autoSave THEN BOOLEAN ELSE {TRUE}) :
          ImportNotes(file, parserType, writeOk)
    \/ \E readdirOk \in BOOLEAN, files \in Listings(DOMAIN disk),
          unreadable \in DOMAIN disk \cup {NoFile} :
          LoadFromStorage(readdirOk, files, unreadable)
    \/ \E bookTitle \in TitleArgs : DeleteBook(bookTitle)
    \/ \E name \in AddedParsers : AddParser(name)

SpecIO == InitIO /\ [][NextIO]_vars

\* Imports that persist: autoSave on, an empty storage directory, and every
\* write succeeding
InitPersist ==
    /\ notes = EmptyMap
    /\ books = EmptyMap
    /\ disk = EmptyMap
    /\ config = [autoSave |-> TRUE]
    /\ parsers = Parsers
    /\ clock = 0
    /\ last = Call("new", NoKey, NoData, NoArgs, "void", <<>>)
    /\ run = RunReset({})
    /\ NoImports
    /\ NewQRLoginService

NextPersist ==
    \/ \E file \in SourceFiles, parserType \in ParserTypes :
          ImportNotes(file, parserType, TRUE)
    \/ \E name \in AddedParsers : AddParser(name)

SpecPersist == InitPersist /\ [][NextPersist]_vars

\* Exporting the bundles of a store filled by storeParsedData
NextExport ==
    \/ \E data \in ParsedBundles : Ingest(data)
    \/ \E bookTitle \in TitleArgs, format \in Formats, writeOk \in BOOLEAN :
          ExportNotes(bookTitle, format, writeOk)
    \/ \E bookTitle \in TitleArgs : DeleteBook(bookTitle)

SpecExport == Init /\ [][NextExport]_vars

----------------------------------------------------------------------------
(* Claims about the two indexes *)

\* the positions <<title, i>> of the stored bundles' notes lists
ListPositions ==
    UNION {{<<t, i>> : i \in 1..Len(books[t].notes)} : t \in DOMAIN books}

\* C1: in every reachable state the two indexes agree: every annotation in a
\* bundle's notes list is the flat index's entry for its id (same id, content
\* and kind), and every flat-index entry occurs exactly once in the notes
\* list of some stored bundle.
C1_IndexesAgree ==
    /\ \A p \in ListPositions :
          LET n == books[p[1]].notes[p[2]]
          IN  /\ n.id \in DOMAIN notes
              /\ notes[n.id].id = n.id
              /\ notes[n.id].content = n.content
              /\ notes[n.id].noteType = n.noteType
    /\ \A k \in DOMAIN notes :
          Cardinality({p \in ListPositions : books[p[1]].notes[p[2]] = notes[k]}) = 1

IsDupPair(data) ==
    /\ Len(data.notes) = 2
    /\ data.notes[1].id = data.notes[2].id

\* getNoteById(noteId) returns an annotation with this id and content
Retrieves(ns, noteId, content) ==
    /\ GetNoteById(ns, noteId) # <<>>
    /\ GetNoteById(ns, noteId)[1].id = noteId
    /\ GetNoteById(ns, noteId)[1].content = content

\* C2: ingesting one bundle that holds two annotations with the same id leaves
\* both retrievable through getNoteById under two distinct resolved ids, each
\* lookup returning the content of the annotation that received the id (the
\* first under id and the second under id_1 when the flat index held neither),
\* and getNotesByBook of the bundle returns two annotations.
C2_DuplicateIdsRetrievable ==
    [][ (last'.op = "storeParsedData" /\ IsDupPair(last'.data)) =>
          LET id     == last'.data.notes[1].id
              first  == last'.data.notes[1].content
              second == last'.data.notes[2].content
              fresh  == DOMAIN notes' \ DOMAIN notes
          IN  /\ \E r1, r2 \in fresh :
                    /\ r1 # r2
                    /\ Retrieves(notes', r1, first)
                    /\ Retrieves(notes', r2, second)
                    /\ (id \notin DOMAIN notes /\ Suffix(id, 1) \notin DOMAIN notes)
                          => (r1 = id /\ r2 = Suffix(id, 1))
              /\ Len(GetNotesByBook(books', last'.key)) = 2
      ]_vars

C2_Witness ==
    /\ last.op = "storeParsedData"
    /\ IsDupPair(last.data)
    /\ Retrieves(notes, last.data.notes[1].id, last.data.notes[1].content)
    /\ Retrieves(notes, Suffix(last.data.notes[1].id, 1), last.data.notes[2].content)

\* the title expected for the k-th ingestion of title t in a row
NthTitle(t, k) == IF k = 1 THEN t ELSE Suffix(t, k - 1)

TitlesDistinctAndKeyed ==
    /\ \A t \in DOMAIN books : books[t].metadata.title = t
    /\ \A t, u \in DOMAIN books :
          t # u => books[t].metadata.title # books[u].metadata.title

\* C3 as stated: starting from a store without X, the first bundle titled X is
\* stored under X, the second under X_1, the third under X_2; all stored
\* titles are pairwise distinct and each metadata.title is the bundle's key.
C3_Original ==
    /\ TitleX \notin run.from =>
          \A k \in 1..Len(run.seen) : k <= 3 => run.seen[k] = NthTitle(TitleX, k)
    /\ TitlesDistinctAndKeyed

\* C3 amended: starting from a store that holds none of X, X_1 and X_2, the
\* first bundle titled X is stored under X, the second under X_1, the third
\* under X_2; every ingestion stores its bundle under a title the store did
\* not hold, so nothing is merged or overwritten; all stored titles are
\* pairwise distinct and each metadata.title is the bundle's key.
C3_SuffixedTitles ==
    /\ run.from \cap {NthTitle(TitleX, k) : k \in 1..3} = {} =>
          \A k \in 1..Len(run.seen) : k <= 3 => run.seen[k] = NthTitle(TitleX, k)
    /\ \A k \in 1..Len(run.seen) :
          /\ run.seen[k] \notin run.from
          /\ \A j \in 1..(k - 1) : run.seen[j] # run.seen[k]
    /\ TitlesDistinctAndKeyed

C3_Witness ==
    /\ run.from \cap {NthTitle(TitleX, k) : k \in 1..3} = {}
    /\ run.seen = <<TitleX, Suffix(TitleX, 1), Suffix(TitleX, 2)>>
    /\ {TitleX, Suffix(TitleX, 1), Suffix(TitleX, 2)} \subseteq DOMAIN books

\* C4: in every reachable state each stored bundle's metadata.totalNotes is
\* the length of its notes list.
C4_TotalNotesIsLength ==
    \A t \in DOMAIN books : books[t].metadata.totalNotes = Len(books[t].notes)

\* C5: in every reachable state every annotation of a stored bundle's notes
\* list, and its flat-index entry, has bookTitle equal to the title the bundle
\* is stored under.
C5_BookTitleIsBundleTitle ==
    \A p \in ListPositions :
        LET n == books[p[1]].notes[p[2]]
        IN  /\ n.bookTitle = p[1]
            /\ n.id \in DOMAIN notes => notes[n.id].bookTitle = p[1]

\* the flat-index keys of the annotations a bundle owns: the ids its notes
\* list holds and the keys under which the flat index holds an entry of the list
OwnedIds(bs, ns, bookTitle) ==
    {bs[bookTitle].notes[i].id : i \in 1..Len(bs[bookTitle].notes)} \cup
    {k \in DOMAIN ns : \E i \in 1..Len(bs[bookTitle].notes) : bs[bookTitle].notes[i] = ns[k]}

\* C6: after deleteBook(title) returns true the bundle is gone from the book
\* index, getNoteById returns undefined for every annotation the bundle owned,
\* and no annotation owned by another bundle has left the flat index.
C6_DeleteBookCascades ==
    [][ (last'.op = "deleteBook" /\ last'.ret = "true") =>
          LET bookTitle == last'.key
          IN  /\ bookTitle \notin DOMAIN books'
              /\ \A k \in OwnedIds(books, notes, bookTitle) : GetNoteById(notes', k) = <<>>
              /\ \A u \in DOMAIN books \ {bookTitle} :
                    \A k \in OwnedIds(books, notes, u) \cap DOMAIN notes :
                        k \in DOMAIN notes'
      ]_vars

\* C7: updateNote and deleteNote with an id the flat index does not hold, and
\* deleteBook with a title the book index does not hold, return false, leave
\* both indexes as they were and emit no notification.
C7_UnknownKeyIsNoOp ==
    [][ ( \/ (last'.op \in {"updateNote", "deleteNote"} /\ last'.key \notin DOMAIN notes)
          \/ (last'.op = "deleteBook" /\ last'.key \notin DOMAIN books) ) =>
          /\ last'.ret = "false"
          /\ last'.ev = <<>>
          /\ notes' = notes
          /\ books' = books
      ]_vars

C7_Witness ==
    /\ last.op \in {"updateNote", "deleteNote", "deleteBook"}
    /\ last.ret = "false"
    /\ last.key \notin DOMAIN notes
    /\ last.key \notin DOMAIN books
    /\ DOMAIN notes # {}

----------------------------------------------------------------------------
(* Claims about failures *)

EventNames(call) == [i \in 1..Len(call.ev) |-> call.ev[i].name]

\* C8 as stated: exportNotes called with a title that is not in the book
\* index reports the failure through its result and does not raise an
\* exception to the caller.
C8_Original ==
    (last.op = "exportNotes" /\ last.key \notin DOMAIN books) => last.ret # "throw"

\* C8: exportNotes called with a title that is not in the book index emits
\* one 'error' notification and rejects; it writes no file, emits no
\* 'notes:exported' notification and leaves both indexes as they were.
C8_UnknownTitleRejects ==
    [][(last'.op = "exportNotes" /\ last'.key \notin DOMAIN books)
          => /\ last'.ret = "throw"
             /\ EventNames(last') = <<"error">>
             /\ disk' = disk
             /\ books' = books
             /\ notes' = notes]_vars

C8_Witness ==
    /\ last.op = "exportNotes"
    /\ last.key \notin DOMAIN books
    /\ last.ret = "throw"
    /\ DOMAIN books # {}
    /\ \E f \in DOMAIN disk : f.ext = "md"

\* the .json files of the directory that fs.readFile reads and JSON.parse accepts
GoodFiles(d, unreadable) ==
    {f \in DOMAIN d : f.ext = "json" /\ d[f].kind = "json" /\ f # unreadable}

\* C9: during loadFromStorage a failure to read or decode one file does not
\* prevent the remaining files from being ingested: every readable,
\* well-formed .json file of the directory ends up as one more stored bundle,
\* wherever the bad file falls in the listing order.
C9_LoadIsBestEffort ==
    [][(last'.op = "loadFromStorage" /\ last'.args.readdirOk)
          => Cardinality(DOMAIN books') =
                Cardinality(DOMAIN books)
                + Cardinality(GoodFiles(disk, last'.args.unreadable))]_vars

\* C10: a disk failure while persisting a bundle (saveToStorage during
\* importNotes with autoSave on) or while reading the storage directory
\* (loadFromStorage) is surfaced to the caller: the call fails or an 'error'
\* notification is emitted.
C10_IOFailureSurfaced ==
    (\/ last.op = "importNotes" /\ config.autoSave /\ ~last.args.writeOk
     \/ last.op = "loadFromStorage" /\ ~last.args.readdirOk)
    => (last.ret = "throw" \/ \E i \in 1..Len(last.ev) : last.ev[i].name = "error")

----------------------------------------------------------------------------
(* Claims about importNotes *)

\* C11: on every successful importNotes the 'notes:imported' notification and
\* the returned bundle carry the collision-resolved title under which the
\* bundle was stored, together with its annotation count.
C11_ImportedCarriesResolvedTitle ==
    (last.op = "importNotes" /\ last.ret = "data")
    => /\ EventNames(last) = <<"notes:imported">>
       /\ last.ev[1].key = last.key
       /\ last.ev[1].count = Len(books[last.key].notes)
       /\ last.data.metadata.title = last.key

\* the names registered in a registry
Registered(ps) == {ps[i] : i \in 1..Len(ps)}

\* C12: parser selection in importNotes. With a format hint the parser
\* registered under that name is used whatever validate says of the content;
\* without a hint the parser used is the first in registration order (duokan,
\* wechat, then those added later) whose validate accepts the content.
C12_ParserSelection ==
    [][(last'.op = "importNotes" /\ last'.args.readable)
          => LET used       == last'.args.parser
                 parserType == last'.args.parserType
                 valid      == last'.args.valid
             IN  /\ parserType # ""
                    => used = (IF parserType \in Registered(parsers) THEN parserType ELSE "")
                 /\ parserType = ""
                    => \/ used = "" /\ Registered(parsers) \cap valid = {}
                       \/ \E i \in 1..Len(parsers) :
                             /\ used = parsers[i]
                             /\ parsers[i] \in valid
                             /\ \A j \in 1..(i - 1) : parsers[j] \notin valid
                 /\ (used = "") = (last'.ret = "throw")
                 /\ SubSeq(parsers, 1, 2) = <<"duokan", "wechat">>]_vars

\* a parser added later is chosen by validation, after duokan and wechat
\* declined
C12_Witness ==
    /\ last.op = "importNotes"
    /\ last.ret = "data"
    /\ last.args.parserType = ""
    /\ last.args.parser = "kindle"
    /\ last.args.valid = {"kindle"}
    /\ parsers = <<"duokan", "wechat", "kindle">>

\* C13: when importNotes finds no parser (no hint and no registered parser's
\* validate accepts the content, or the hint names no registered parser) the
\* call fails, one 'error' notification and no 'notes:imported' is emitted,
\* nothing is persisted and both indexes are unchanged.
C13_NoParserFails ==
    [][(/\ last'.op = "importNotes"
        /\ last'.args.readable
        /\ LET parserType == last'.args.parserType
           IN  \/ parserType # "" /\ parserType \notin Registered(parsers)
               \/ parserType = "" /\ Registered(parsers) \cap last'.args.valid = {})
          => /\ last'.ret = "throw"
             /\ EventNames(last') = <<"error">>
             /\ disk' = disk
             /\ books' = books
             /\ notes' = notes]_vars

C13_Witness ==
    /\ last.op = "importNotes"
    /\ last.ret = "throw"
    /\ last.args.parserType = ""
    /\ last.args.parser = ""
    /\ parsers = <<"duokan", "wechat", "kindle">>
    /\ config.autoSave
    /\ DOMAIN books # {}

----------------------------------------------------------------------------
(* Claims about persistence *)

\* the annotation contents of a bundle, in order
Contents(book) == [i \in 1..Len(book.notes) |-> book.notes[i].content]

\* loadFromStorage into a fresh empty store, the directory listed as files
Reloaded(files) ==
    LoadFiles([books |-> EmptyMap, notes |-> EmptyMap, thrown |-> FALSE], files, NoFile)

\* bs and cs hold the same number of bundles, with the same contents
SameBundles(bs, cs) ==
    /\ Cardinality(DOMAIN bs) = Cardinality(DOMAIN cs)
    /\ \E m \in [DOMAIN bs -> DOMAIN cs] :
          /\ \A t, u \in DOMAIN bs : t # u => m[t] # m[u]
          /\ \A t \in DOMAIN bs : Contents(bs[t]) = Contents(cs[m[t]])

\* C14: after any sequence of successful importNotes calls with autoSave on,
\* the storage directory holds one JSON document per stored bundle, and
\* loadFromStorage into a fresh empty store yields the same number of bundles,
\* each with the same annotation contents in the same order.
C14_PersistenceRoundTrip ==
    /\ Cardinality({f \in DOMAIN disk : f.ext = "json"}) = Cardinality(DOMAIN books)
    /\ \A files \in Listings(DOMAIN disk) : SameBundles(books, Reloaded(files).books)

----------------------------------------------------------------------------
(* The parsers: DuokanParser and WeChatParser *)

\* Bounds of the parsed documents
MaxItems == 2    \* entries of a JSON notes array, <note> elements of an XML text
MaxLines == 3    \* non-blank lines of a free text

\* JSON values, as JSON.parse returns them
Undefined == [t |-> "undefined"]
JNull     == [t |-> "null"]
JStr(s)   == [t |-> "string", v |-> s]
JNum(n)   == [t |-> "number", v |-> n]
JArr(a)   == [t |-> "array", v |-> a]
JObj(f)   == [t |-> "object", v |-> f]

\* value.key for a value that is neither null nor undefined
Get(value, key) ==
    IF value.t = "object" /\ key \in DOMAIN value.v THEN value.v[key] ELSE Undefined

Truthy(value) ==
    CASE value.t \in {"undefined", "null"} -> FALSE
      [] value.t = "string" -> value.v # ""
      [] value.t = "number" -> value.v # 0
      [] OTHER -> TRUE

\* a || b
Or(a, b) == IF Truthy(a) THEN a ELSE b

\* The result of a call to parse: a bundle, or an exception
Returned(data) == [threw |-> FALSE, data |-> data]
Threw == [threw |-> TRUE, data |-> NoData]

\* `${prefix}_${index}_${Date.now()}`
ParsedId(prefix, index) == [prefix |-> prefix, index |-> index]

\* typeMap[type] || 'highlight', for both parsers' maps on the types used
MapNoteType(type) ==
    IF type.t = "string" /\ type.v \in {"highlight", "note", "bookmark"}
    THEN type.v ELSE "highlight"

UnknownBook == JStr("Unknown Book")

\* The object pushed for entry note at index of data.notes (parseJSON of
\* either parser; source is 'duokan' or 'wechat')
JsonNote(source, data, note, index) ==
    [id        |-> ParsedId(source, index),
     bookTitle |-> Or(Get(data, "bookTitle"), Or(Get(note, "bookTitle"), UnknownBook)).v,
     noteType  |-> MapNoteType(Or(Get(note, "type"), JStr("highlight"))),
     content   |-> Or(Get(note, "content"), Or(Get(note, "text"), JStr(""))).v,
     position  |-> Or(Get(note, "position"), Or(Get(note, "location"), JNum(index))).v,
     chapter   |-> Or(Get(note, "chapter"), Get(note, "section")),
     source    |-> source]

\* The part of parseJSON after JSON.parse, the same in both parsers:
\* data.notes of null and note.type of a null entry raise a TypeError
ParseJSONValue(source, data) ==
    IF data.t = "null" THEN Threw
    ELSE LET list  == Get(data, "notes")
             items == IF list.t = "array" THEN list.v ELSE <<>>
         IN  IF \E i \in 1..Len(items) : items[i].t = "null" THEN Threw
             ELSE LET pushed == [i \in 1..Len(items) |->
                                    JsonNote(source, data, items[i], i - 1)]
                  IN  Returned([metadata |->
                                   [title |-> Or(Get(data, "bookTitle"),
                                                 Or(Get(data, "title"), UnknownBook)).v,
                                    totalNotes |-> Len(pushed)],
                                notes |-> pushed])

\* A non-blank line of a text, trimmed, described by what the parsers ask of
\* it: the tokens it includes, whether it starts with 第, is all digits, is
\* longer than 5 characters, the captures of 书名[:：]\s*(.+) and of 《([^》]+)》,
\* the text left when its '划线：', '想法：', '书签：' or '章节：' marker is
\* removed, its cells split at the commas outside quotes (quotes dropped) and
\* its cells split at every comma.
\* Tokens: duokan, duokan_cn 多看, reading_notes 读书笔记, xml_decl <?xml,
\* notes_tag <notes>, weread 微信读书, WeChat, underline 划线, thought 想法,
\* chapter 章节, bookmark 书签, position 位置, title_label 书名, author_label 作者,
\* di 第, zhang 章, book_quote 《, comma, and underline:, thought:, bookmark:,
\* chapter: for a marker followed by '：'
Line(text, has, long) ==
    [text |-> text, has |-> has, long |-> long, startsDi |-> FALSE, digits |-> FALSE,
     title |-> "", quoted |-> "", rest |-> text, cells |-> <<text>>, heads |-> <<text>>]

\* '读书笔记'
HeaderLine == Line("reading notes", {"reading_notes"}, FALSE)
\* '书名：X'
TitleLine == [Line("title: X", {"title_label"}, FALSE) EXCEPT !.title = "X"]
\* 'a long highlight'
PlainLine == Line("a long highlight", {}, TRUE)
\* 'abc'
ShortLine == Line("abc", {}, FALSE)
\* '12'
DigitsLine == [Line("12", {}, FALSE) EXCEPT !.digits = TRUE]
\* '{"source": "duokan", "notes": ['
BrokenDuokanLine ==
    [Line("{\"source\": \"duokan\", \"notes\": [", {"duokan", "comma"}, TRUE) EXCEPT
        !.cells = <<"{source: duokan", "notes: [">>,
        !.heads = <<"{\"source\": \"duokan\"", "\"notes\": [">>]
\* '{"source": "WeChat", "notes": ['
BrokenWeChatLine ==
    [Line("{\"source\": \"WeChat\", \"notes\": [", {"WeChat", "comma"}, TRUE) EXCEPT
        !.cells = <<"{source: WeChat", "notes: [">>,
        !.heads = <<"{\"source\": \"WeChat\"", "\"notes\": [">>]
\* '微信读书《X》'
WeReadLine ==
    [Line("weread <<X>>", {"weread", "book_quote"}, TRUE) EXCEPT !.quoted = "X"]
\* '划线'
UnderlineLine == Line("underline", {"underline"}, FALSE)
\* '想法：my thought'
ThoughtLine ==
    [Line("thought: my thought", {"thought", "thought:"}, TRUE) EXCEPT !.rest = "my thought"]
\* '书签：'
BookmarkLine ==
    [Line("bookmark:", {"bookmark", "bookmark:"}, FALSE) EXCEPT !.rest = ""]
\* '第一章'
ChapterLine ==
    [Line("chapter one", {"di", "zhang"}, FALSE) EXCEPT !.startsDi = TRUE]
\* 'content,type,chapter,WeChat'
CsvHeaderLine ==
    [Line("content,type,chapter,WeChat", {"WeChat", "comma"}, TRUE) EXCEPT
        !.cells = <<"content", "type", "chapter", "WeChat">>,
        !.heads = <<"content", "type", "chapter", "WeChat">>]
\* 'c1,note'
CsvRowLine ==
    [Line("c1,note", {"comma"}, TRUE) EXCEPT
        !.cells = <<"c1", "note">>, !.heads = <<"c1", "note">>]

\* 'c1,note,ch1,x'
CsvFullRowLine ==
    [Line("c1,note,ch1,x", {"comma"}, TRUE) EXCEPT
        !.cells = <<"c1", "note", "ch1", "x">>, !.heads = <<"c1", "note", "ch1", "x">>]

TextLines ==
    {HeaderLine, TitleLine, PlainLine, ShortLine, DigitsLine, BrokenDuokanLine,
     BrokenWeChatLine, WeReadLine, UnderlineLine, ThoughtLine, BookmarkLine,
     ChapterLine, CsvHeaderLine, CsvRowLine, CsvFullRowLine}

\* A text given to a parser: its non-blank lines, what JSON.parse makes of it
\* and, for an XML text, its <bookTitle> and <note> elements
NotJson == [t |-> "invalid"]
NoXml   == [bookTitle |-> "", notes |-> <<>>]

RECURSIVE SeqsUpTo(_, _)
SeqsUpTo(set, n) ==
    IF n = 0 THEN {<<>>}
    ELSE LET shorter == SeqsUpTo(set, n - 1)
         IN  shorter \cup {Append(q, x) : q \in {r \in shorter : Len(r) = n - 1}, x \in set}

\* free texts; the text '12' alone is also a JSON number
TextDoc(lines) ==
    [lines |-> lines,
     json  |-> IF lines = <<DigitsLine>> THEN JNum(12) ELSE NotJson,
     xml   |-> NoXml]

TextDocs == {TextDoc(lines) : lines \in SeqsUpTo(TextLines, MaxLines)}

\* JSON texts: null, 5, and objects with any of bookTitle, title, source
\* and notes, notes being a string or an array of entries
Field(name, values) == {EmptyMap} \cup {name :> value : value \in values}

JsonEntries ==
    {JNull,
     JObj(EmptyMap),
     JObj("content" :> JStr("c1")),
     JObj("text" :> JStr("c2") @@ "type" :> JStr("note") @@ "position" :> JNum(2)),
     JObj("content" :> JStr("c3") @@ "chapter" :> JStr("ch1") @@ "position" :> JNum(1))}

JsonObjects ==
    {JObj(a @@ b @@ c @@ d) :
        a \in Field("bookTitle", {JStr("X")}),
        b \in Field("title", {JStr("Y")}),
        c \in Field("source", {JStr("duokan"), JStr("WeChat")}),
        d \in Field("notes", {JStr("none")} \cup {JArr(q) : q \in SeqsUpTo(JsonEntries, MaxItems)})}

\* the marker a JSON text carries in its source field
JsonMarkers(value) ==
    IF value.t = "object" /\ "source" \in DOMAIN value.v THEN {value.v["source"].v} ELSE {}

JsonDoc(value) ==
    [lines |-> <<Line("json", JsonMarkers(value), TRUE)>>, json |-> value, xml |-> NoXml]

JsonDocs == {JsonDoc(value) : value \in {JNull, JNum(5)} \cup JsonObjects}

\* XML texts: '<notes><bookTitle>..</bookTitle><note>..</note>..</notes>' on
\* one line; an element is a <note> with '<content>c1</content>', with
\* '<content></content>' or with no <content>
XmlElements ==
    {[hasContent |-> TRUE, content |-> "c1"],
     [hasContent |-> TRUE, content |-> ""],
     [hasContent |-> FALSE, content |-> ""]}

XmlDocs ==
    {[lines |-> <<Line("xml", {"notes_tag"}, TRUE)>>, json |-> NotJson,
      xml |-> [bookTitle |-> title, notes |-> q]] :
        title \in {"", "X"}, q \in SeqsUpTo(XmlElements, MaxItems)}

Documents == TextDocs \cup JsonDocs \cup XmlDocs

\* content.includes(token)
Includes(content, token) == \E i \in 1..Len(content.lines) : token \in content.lines[i].has

IsValidJSON(content) == content.json.t # "invalid"

IsValidXML(content) == Includes(content, "xml_decl") \/ Includes(content, "notes_tag")

\* a bundle as the text parsers return it
TextBundle(title, pushed) ==
    [metadata |-> [title |-> title, totalNotes |-> Len(pushed)], notes |-> pushed]

TextNote(id, bookTitle, noteType, content, position, chapter, source) ==
    [id |-> id, bookTitle |-> bookTitle, noteType |-> noteType, content |-> content,
     position |-> position, chapter |-> chapter, source |-> source]

DuokanValidate(content) ==
    \/ Includes(content, "duokan")
    \/ Includes(content, "duokan_cn")
    \/ Includes(content, "reading_notes")
    \/ IsValidJSON(content)
    \/ IsValidXML(content)

\* DuokanParser.parseJSON: a text JSON.parse rejects gives the placeholder
DuokanParseJSON(content) ==
    IF content.json.t = "invalid"
    THEN Returned([metadata |-> [title |-> "Unknown Book", totalNotes |-> 0], notes |-> <<>>])
    ELSE ParseJSONValue("duokan", content.json)

\* the notes parseXML pushes for the elements from index on
RECURSIVE XmlNotes(_, _, _)
XmlNotes(elements, index, title) ==
    IF index >= Len(elements) THEN <<>>
    ELSE LET e == elements[index + 1]
         IN  (IF e.hasContent
              THEN <<TextNote(ParsedId("duokan_xml", index), title, "highlight",
                              e.content, index, Undefined, "duokan")>>
              ELSE <<>>)
             \o XmlNotes(elements, index + 1, title)

ParseXML(content) ==
    LET title == IF content.xml.bookTitle # "" THEN content.xml.bookTitle ELSE "Unknown Book"
    IN  Returned(TextBundle(title, XmlNotes(content.xml.notes, 0, title)))

\* the capture of the first match of a title pattern in the text
FirstTitle(lines, field) ==
    IF \E i \in 1..Len(lines) : lines[i][field] # ""
    THEN lines[CHOOSE i \in 1..Len(lines) :
                  /\ lines[i][field] # ""
                  /\ \A j \in 1..(i - 1) : lines[j][field] = ""][field]
    ELSE "Unknown Book"

\* the test of DuokanParser.parsePlainText that makes a line a note
DuokanIsNote(line) ==
    /\ "title_label" \notin line.has
    /\ "author_label" \notin line.has
    /\ ~(line.startsDi /\ "zhang" \in line.has)
    /\ ~line.digits
    /\ line.long
    /\ "reading_notes" \notin line.has

RECURSIVE DuokanTextNotes(_, _, _, _)
DuokanTextNotes(lines, i, noteIndex, title) ==
    IF i > Len(lines) THEN <<>>
    ELSE IF DuokanIsNote(lines[i])
         THEN <<TextNote(ParsedId("duokan_txt", noteIndex), title, "highlight",
                         lines[i].text, noteIndex, Undefined, "duokan")>>
              \o DuokanTextNotes(lines, i + 1, noteIndex + 1, title)
         ELSE DuokanTextNotes(lines, i + 1, noteIndex, title)

DuokanParsePlainText(content) ==
    LET title == FirstTitle(content.lines, "title")
    IN  Returned(TextBundle(title, DuokanTextNotes(content.lines, 1, 0, title)))

DuokanParse(content) ==
    IF IsValidJSON(content) THEN DuokanParseJSON(content)
    ELSE IF IsValidXML(content) THEN ParseXML(content)
    ELSE DuokanParsePlainText(content)

IsValidWeChatFormat(content) ==
    /\ Includes(content, "weread")
    /\ \/ Includes(content, "underline")
       \/ Includes(content, "thought")
       \/ Includes(content, "chapter")

WeChatValidate(content) ==
    \/ Includes(content, "weread")
    \/ Includes(content, "WeChat")
    \/ Includes(content, "reading_notes")
    \/ IsValidWeChatFormat(content)

\* WeChatParser.parseJSON: JSON.parse is not guarded
WeChatParseJSON(content) ==
    IF content.json.t = "invalid" THEN Threw ELSE ParseJSONValue("wechat", content.json)

\* One of the three marker tests of the parseWeChatFormat loop body; st is
\* the loop index i (from 0), noteIndex and the notes pushed so far; excluded
\* are the markers the next line must not include
FormatStage(lines, st, marked, excluded, noteType, title, chapter) ==
    IF marked /\ st.i + 1 < Len(lines) /\ lines[st.i + 2].has \cap excluded = {}
    THEN [i |-> st.i + 1, noteIndex |-> st.noteIndex + 1,
          out |-> Append(st.out,
                         TextNote(ParsedId("wechat", st.noteIndex), title, noteType,
                                  lines[st.i + 2].text, st.i, JStr(chapter), "wechat"))]
    ELSE st

RECURSIVE FormatNotes(_, _, _, _, _)
FormatNotes(lines, i, noteIndex, title, chapter) ==
    IF i >= Len(lines) THEN <<>>
    ELSE LET line == lines[i + 1]
         IN  IF "chapter" \in line.has \/ ("di" \in line.has /\ "zhang" \in line.has)
             THEN FormatNotes(lines, i + 1, noteIndex, title, line.text)
             ELSE LET AfterUnderline == {"thought", "chapter"}
                      AfterThought   == {"underline", "chapter"}
                      AfterBookmark  == {}
                      s0 == [i |-> i, noteIndex |-> noteIndex, out |-> <<>>]
                      s1 == FormatStage(lines, s0, "underline" \in line.has,
                                        AfterUnderline, "highlight", title, chapter)
                      s2 == FormatStage(lines, s1, "thought" \in line.has,
                                        AfterThought, "note", title, chapter)
                      s3 == FormatStage(lines, s2,
                                        "bookmark" \in line.has \/ "position" \in line.has,
                                        AfterBookmark, "bookmark", title, chapter)
                  IN  s3.out \o FormatNotes(lines, s3.i + 1, s3.noteIndex, title, chapter)

ParseWeChatFormat(content) ==
    LET title == FirstTitle(content.lines, "quoted")
    IN  Returned(TextBundle(title, FormatNotes(content.lines, 0, 0, title, "")))

\* what a header cell names: 内容/content, 章节/chapter, 类型/type
HeaderKind(h) == IF h \in {"content", "chapter", "type"} THEN h ELSE ""

\* headers.findIndex(h => ...), from 0, -1 when there is none
HeaderIndex(headers, kind) ==
    IF \E i \in 1..Len(headers) : HeaderKind(headers[i]) = kind
    THEN (CHOOSE i \in 1..Len(headers) :
             /\ HeaderKind(headers[i]) = kind
             /\ \A j \in 1..(i - 1) : HeaderKind(headers[j]) # kind) - 1
    ELSE -1

\* The body of the parseCSV loop for line i (from 0): the note pushed, none,
\* or a TypeError when a header names a column the line does not have
CsvRow(lines, i) ==
    LET headers      == lines[1].heads
        columns      == lines[i + 1].cells
        contentIndex == HeaderIndex(headers, "content")
        chapterIndex == HeaderIndex(headers, "chapter")
        typeIndex    == HeaderIndex(headers, "type")
        contentAt    == IF contentIndex >= 0 THEN contentIndex ELSE 0
    IN  IF Len(columns) < 2 THEN [threw |-> FALSE, out |-> <<>>]
        ELSE IF \/ contentAt >= Len(columns)
                \/ chapterIndex >= Len(columns)
                \/ typeIndex >= Len(columns)
             THEN [threw |-> TRUE, out |-> <<>>]
             ELSE LET noteContent == columns[contentAt + 1]
                      chapter  == IF chapterIndex >= 0 THEN columns[chapterIndex + 1] ELSE ""
                      noteType == IF typeIndex >= 0
                                  THEN MapNoteType(JStr(columns[typeIndex + 1]))
                                  ELSE "highlight"
                  IN  [threw |-> FALSE,
                       out |-> IF noteContent # ""
                               THEN <<TextNote(ParsedId("wechat_csv", i), "Unknown Book",
                                               noteType, noteContent, i, JStr(chapter),
                                               "wechat")>>
                               ELSE <<>>]

RECURSIVE CsvRows(_, _)
CsvRows(lines, i) ==
    IF i >= Len(lines) THEN [threw |-> FALSE, out |-> <<>>]
    ELSE LET row  == CsvRow(lines, i)
             more == CsvRows(lines, i + 1)
         IN  IF row.threw \/ more.threw THEN [threw |-> TRUE, out |-> <<>>]
             ELSE [threw |-> FALSE, out |-> row.out \o more.out]

ParseCSV(content) ==
    LET lines      == content.lines
        hasHeaders == \E i \in 1..Len(lines[1].heads) :
                          HeaderKind(lines[1].heads[i]) \in {"content", "chapter"}
        rows       == CsvRows(lines, IF hasHeaders THEN 1 ELSE 0)
    IN  IF rows.threw THEN Threw ELSE Returned(TextBundle("Unknown Book", rows.out))

\* the marker of a line that WeChatParser.parsePlainText removes, with the
\* kind of note it makes
ColonMarkers == <<"underline:", "thought:", "bookmark:">>
MarkerType(marker) ==
    CASE marker \in {"underline:", "underline"} -> "highlight"
      [] marker \in {"thought:", "thought"} -> "note"
      [] OTHER -> "bookmark"

RECURSIVE WeChatTextNotes(_, _, _, _, _)
WeChatTextNotes(lines, i, noteIndex, title, chapter) ==
    IF i >= Len(lines) THEN <<>>
    ELSE LET line == lines[i + 1]
             Note(noteType, text) ==
                 TextNote(ParsedId("wechat_txt", noteIndex), title, noteType, text, i,
                          JStr(chapter), "wechat")
         IN  IF "chapter:" \in line.has \/ (line.startsDi /\ "zhang" \in line.has)
             THEN WeChatTextNotes(lines, i + 1, noteIndex, title, line.rest)
             ELSE IF \E k \in 1..3 : ColonMarkers[k] \in line.has
             THEN LET marker == ColonMarkers[CHOOSE k \in 1..3 :
                                    /\ ColonMarkers[k] \in line.has
                                    /\ \A j \in 1..(k - 1) : ColonMarkers[j] \notin line.has]
                  IN  IF line.rest # ""
                      THEN <<Note(MarkerType(marker), line.rest)>>
                           \o WeChatTextNotes(lines, i + 1, noteIndex + 1, title, chapter)
                      ELSE WeChatTextNotes(lines, i + 1, noteIndex, title, chapter)
             ELSE IF /\ line.has \cap {"underline", "thought", "bookmark"} # {}
                     /\ i + 1 < Len(lines)
                     /\ lines[i + 2].has \cap {"book_quote", "author_label", "chapter",
                                               "underline", "thought", "bookmark"} = {}
                     /\ lines[i + 2].long
             THEN <<Note(IF "underline" \in line.has THEN "highlight"
                         ELSE IF "thought" \in line.has THEN "note" ELSE "bookmark",
                         lines[i + 2].text)>>
                  \o WeChatTextNotes(lines, i + 2, noteIndex + 1, title, chapter)
             ELSE WeChatTextNotes(lines, i + 1, noteIndex, title, chapter)

WeChatParsePlainText(content) ==
    LET title == FirstTitle(content.lines, "quoted")
    IN  Returned(TextBundle(title, WeChatTextNotes(content.lines, 0, 0, title, "")))

WeChatParse(content) ==
    IF Includes(content, "weread") /\ Includes(content, "thought")
    THEN ParseWeChatFormat(content)
    ELSE IF IsValidJSON(content) THEN WeChatParseJSON(content)
    ELSE IF Includes(content, "comma") THEN ParseCSV(content)
    ELSE WeChatParsePlainText(content)

\* The two parsers, by the names they are registered under
Validate(parser, content) ==
    IF parser = "duokan" THEN DuokanValidate(content) ELSE WeChatValidate(content)

Parse(parser, content) ==
    IF parser = "duokan" THEN DuokanParse(content) ELSE WeChatParse(content)

\* A parser and a text to give it
InitParse ==
    /\ notes = EmptyMap
    /\ books = EmptyMap
    /\ disk = EmptyMap
    /\ config = [autoSave |-> FALSE]
    /\ parsers = Parsers
    /\ clock = 0
    /\ run = RunReset({})
    /\ NoImports
    /\ NewQRLoginService
    /\ \E parser \in {"duokan", "wechat"}, content \in Documents :
          last = Call("given", Str(parser), NoData,
                      [parser |-> parser, content |-> content,
                       valid |-> Validate(parser, content)],
                      "void", <<>>)

\* parser.parse(content) for the parser and text given
ParseCall ==
    /\ last.op = "given"
    /\ LET result == Parse(last.args.parser, last.args.content)
       IN  last' = Call("parse", last.key, result.data, last.args,
                        IF result.threw THEN "throw" ELSE "data", <<>>)
    /\ UNCHANGED <<notes, books, disk, config, parsers, clock, run, pending, loginVars>>

SpecParse == InitParse /\ [][ParseCall]_vars

----------------------------------------------------------------------------
(* Claims about the parsers *)

\* C15: for every non-empty input that a parser's own validate accepts, parse
\* completes without throwing and returns a bundle whose metadata.totalNotes
\* equals the length of its notes list.
C15_ParseNeverThrows ==
    (last.op = "parse" /\ last.args.valid /\ last.args.content.lines # <<>>)
    => /\ last.ret = "data"
       /\ last.data.metadata.totalNotes = Len(last.data.notes)

\* a truncated JSON text that holds a source marker
Malformed(content) ==
    content.lines \in {<<BrokenDuokanLine>>, <<BrokenWeChatLine>>}

\* C16: for every malformed input that a parser's validate nonetheless
\* accepts, parse returns the empty placeholder bundle: metadata.title is
\* 'Unknown Book' and the notes list is empty.
C16_MalformedGivesPlaceholder ==
    (last.op = "parse" /\ last.args.valid /\ Malformed(last.args.content))
    => /\ last.ret = "data"
       /\ last.data.metadata.title = "Unknown Book"
       /\ last.data.notes = <<>>

----------------------------------------------------------------------------
(* Queries: searchNotes, getStatistics *)

\* The characters of the texts used
Chars(text) ==
    CASE text = "c1" -> <<"c", "1">>
      [] text = "c2" -> <<"c", "2">>
      [] text = "c3" -> <<"c", "3">>
      [] text = "c4" -> <<"c", "4">>
      [] text = "C1" -> <<"C", "1">>
      [] text = "Ch1" -> <<"C", "h", "1">>
      [] text = "ch" -> <<"c", "h">>
      [] text = "JS" -> <<"J", "S">>
      [] text = "js" -> <<"j", "s">>
      [] text = "X" -> <<"X">>
      [] text = "x_1" -> <<"x", "_", "1">>
      [] text = "X?" -> <<"X", "?">>
      [] text = "Z" -> <<"Z">>
      [] text = "py" -> <<"p", "y">>
      [] OTHER -> <<>>

Digit(n) == <<"0", "1", "2", "3", "4", "5", "6", "7", "8", "9">>[n + 1]

\* the characters of a title or id: its text, then _counter for each suffix
RECURSIVE SuffixChars(_)
SuffixChars(sfx) ==
    IF sfx = <<>> THEN <<>> ELSE <<"_", Digit(Head(sfx))>> \o SuffixChars(Tail(sfx))

KeyChars(key) == Chars(key.base) \o SuffixChars(key.sfx)

\* String.toLowerCase
ToLowerCase(chars) ==
    [i \in 1..Len(chars) |->
        CASE chars[i] = "C" -> "c"
          [] chars[i] = "J" -> "j"
          [] chars[i] = "S" -> "s"
          [] chars[i] = "X" -> "x"
          [] chars[i] = "Z" -> "z"
          [] OTHER -> chars[i]]

\* String.includes
StringIncludes(chars, term) ==
    \E k \in 0..(Len(chars) - Len(term)) :
        \A i \in 1..Len(term) : chars[k + i] = term[i]

\* the test of searchNotes without toLowerCase on the annotation's fields
SearchMatchesCaseSensitive(note, searchTerm) ==
    \/ StringIncludes(Chars(note.content), searchTerm)
    \/ StringIncludes(KeyChars(note.bookTitle), searchTerm)
    \/ (note.chapter # "" /\ StringIncludes(Chars(note.chapter), searchTerm))
    \/ \E i \in 1..Len(note.tags) : StringIncludes(Chars(note.tags[i]), searchTerm)

\* the test of searchNotes on one annotation
SearchMatches(note, searchTerm) ==
    \/ StringIncludes(ToLowerCase(Chars(note.content)), searchTerm)
    \/ StringIncludes(ToLowerCase(KeyChars(note.bookTitle)), searchTerm)
    \/ (note.chapter # "" /\ StringIncludes(ToLowerCase(Chars(note.chapter)), searchTerm))
    \/ \E i \in 1..Len(note.tags) :
          StringIncludes(ToLowerCase(Chars(note.tags[i])), searchTerm)

\* searchNotes(query): the flat-index keys of the annotations returned
SearchResults(ns, query) ==
    {k \in DOMAIN ns : SearchMatches(ns[k], ToLowerCase(Chars(query)))}

Queries == {"C1", "ch", "JS", "x_1", "py"}

SearchNotes(query) ==
    /\ last' = Call("searchNotes", NoKey, NoData,
                    [query |-> query,
                     results |-> {notes[k] : k \in SearchResults(notes, query)}],
                    "list", <<>>)
    /\ UNCHANGED <<notes, books, disk, config, parsers, clock, run, pending, loginVars>>

\* Searching a store filled by storeParsedData and changed by updateNote
NextQuery ==
    \/ \E data \in InputBundles : Ingest(data)
    \/ \E noteId \in IdArgs, updates \in UpdateSet : UpdateNote(noteId, updates)
    \/ \E query \in Queries : SearchNotes(query)

SpecQuery == Init /\ [][NextQuery]_vars

\* the lower-cased query is a substring of the lower-cased text
FoundIn(query, chars) == StringIncludes(ToLowerCase(chars), ToLowerCase(Chars(query)))

\* C17: searchNotes(query) returns exactly the flat-index annotations for
\* which the lower-cased query is a substring of the lower-cased content,
\* bookTitle, chapter (when present) or at least one tag; the store is
\* unchanged by the call.
C17_SearchIsExact ==
    [][last'.op = "searchNotes"
          => /\ last'.args.results =
                   {notes[k] : k \in
                       {j \in DOMAIN notes :
                           LET n == notes[j]
                               q == last'.args.query
                           IN  \/ FoundIn(q, Chars(n.content))
                               \/ FoundIn(q, KeyChars(n.bookTitle))
                               \/ n.chapter # "" /\ FoundIn(q, Chars(n.chapter))
                               \/ \E i \in 1..Len(n.tags) : FoundIn(q, Chars(n.tags[i]))}}
             /\ notes' = notes
             /\ books' = books]_vars

\* a search whose upper-case query matches some annotations and not others
C17_Witness ==
    /\ last.op = "searchNotes"
    /\ last.args.query = "C1"
    /\ last.args.results # {}
    /\ last.args.results # {notes[k] : k \in DOMAIN notes}

\* the counts of getStatistics: for each value of field among the flat-index
\* annotations, how many carry it
CountBy(ns, field) ==
    [value \in {ns[k][field] : k \in DOMAIN ns} |->
        Cardinality({k \in DOMAIN ns : ns[k][field] = value})]

GetStatistics(bs, ns) ==
    [totalBooks    |-> Cardinality(DOMAIN bs),
     totalNotes    |-> Cardinality(DOMAIN ns),
     notesBySource |-> CountBy(ns, "source"),
     notesByType   |-> CountBy(ns, "noteType")]

RECURSIVE SumOver(_, _)
SumOver(f, keys) ==
    IF keys = {} THEN 0
    ELSE LET k == CHOOSE x \in keys : TRUE IN f[k] + SumOver(f, keys \ {k})

\* C18: in every reachable state getStatistics reports totalBooks equal to the
\* number of stored bundles and totalNotes equal to the number of annotations
\* held across all stored bundles' notes lists, and the counts in
\* notesBySource and in notesByType each sum to totalNotes.
C18_StatisticsCountTheStore ==
    LET stats   == GetStatistics(books, notes)
        lengths == [t \in DOMAIN books |-> Len(GetNotesByBook(books, t))]
    IN  /\ stats.totalBooks = Cardinality(DOMAIN books)
        /\ stats.totalNotes = SumOver(lengths, DOMAIN books)
        /\ SumOver(stats.notesBySource, DOMAIN stats.notesBySource) = stats.totalNotes
        /\ SumOver(stats.notesByType, DOMAIN stats.notesByType) = stats.totalNotes

(***************************************************************************)
(* Editing stored annotations: updateNote and deleteNote after ingestions  *)
(* and earlier updates                                                     *)
(***************************************************************************)

\* the number of successful updates a behaviour of SpecEdit may hold
MaxEdits == 2

NextEdit ==
    \/ \E data \in InputBundles : Ingest(data)
    \/ \E noteId \in IdArgs, updates \in UpdateSet :
          UpdateNoteUpTo(MaxEdits, noteId, updates)
    \/ \E noteId \in IdArgs : DeleteNote(noteId)

SpecEdit == Init /\ [][NextEdit]_vars

\* the list positions of every stored bundle
Slots(bs) == UNION {{<<t, i>> : i \in 1..Len(bs[t].notes)} : t \in DOMAIN bs}

\* C19: after updateNote(id, fields) returns true, getNoteById(id) and the
\* entry for that annotation in its owning bundle's notes list both hold the
\* previous annotation merged with the given fields and an updatedAt stamp,
\* and every other annotation in both indexes and every bundle's totalNotes
\* are unchanged.
C19_UpdateWritesThrough ==
    [][(last'.op = "updateNote" /\ last'.ret = "true") =>
        LET noteId == last'.key
            merged == MergeNote(notes[noteId], last'.args, clock')
        IN  /\ clock' > clock
            /\ DOMAIN notes' = DOMAIN notes
            /\ GetNoteById(notes', noteId) = <<merged>>
            /\ \A k \in DOMAIN notes \ {noteId} : notes'[k] = notes[k]
            /\ DOMAIN books' = DOMAIN books
            /\ Slots(books') = Slots(books)
            /\ \E slot \in Slots(books) :
                  /\ books'[slot[1]].notes[slot[2]] = merged
                  /\ \A other \in Slots(books) \ {slot} :
                        books'[other[1]].notes[other[2]] =
                        books[other[1]].notes[other[2]]
            /\ \A t \in DOMAIN books :
                  books'[t].metadata.totalNotes = books[t].metadata.totalNotes
    ]_vars

\* list with its i-th entry taken out
Without(list, i) == SubSeq(list, 1, i - 1) \o SubSeq(list, i + 1, Len(list))

\* C20: after deleteNote(id) returns true, in every state reached by
\* ingestions and updates, the id is absent from the flat index, the owning
\* bundle's notes list has lost exactly that one annotation (one entry
\* shorter, no entry with that id left), that bundle's totalNotes is the new
\* length, and all other bundles and annotations are unchanged.
C20_DeleteRemovesExactlyOne ==
    [][(last'.op = "deleteNote" /\ last'.ret = "true") =>
        LET noteId == last'.key
        IN  /\ GetNoteById(notes', noteId) = <<>>
            /\ DOMAIN notes' = DOMAIN notes \ {noteId}
            /\ \A k \in DOMAIN notes' : notes'[k] = notes[k]
            /\ DOMAIN books' = DOMAIN books
            /\ \E t \in DOMAIN books :
                  LET before == GetNotesByBook(books, t)
                      after  == GetNotesByBook(books', t)
                  IN  /\ \E i \in 1..Len(before) :
                            /\ before[i].id = noteId
                            /\ after = Without(before, i)
                      /\ FindIndex(after, noteId) = 0
                      /\ books'[t].metadata.totalNotes = Len(after)
                      /\ books'[t].metadata.title = books[t].metadata.title
                      /\ \A other \in DOMAIN books \ {t} :
                            books'[other] = books[other]
    ]_vars

(***************************************************************************)
(* The Markdown formatters.  A document is the sequence of its blocks: the *)
(* '# ...' header, the book information list, a '## ...' section heading,  *)
(* one block per annotation, or the '暂无笔记' line.                        *)
(***************************************************************************)

\* the longest list given to a formatter
MaxRendered == 3

\* '未分类', the section of the annotations without a chapter
Uncategorized == "uncategorized"

\* A BookNote as the formatters read it: chapter = "" is an absent chapter,
\* position = 0 an absent position
NoteToFormat(content, noteType, chapter, position, createdAt, tags) ==
    [bookTitle |-> Str("X"), content |-> content, noteType |-> noteType,
     chapter |-> chapter, position |-> position, createdAt |-> createdAt,
     tags |-> tags]

NotesToFormat ==
    {NoteToFormat("c1", "highlight", "Ch2", 2, 1, <<>>),
     NoteToFormat("c2", "note", "Ch1", 1, 2, <<"JS">>),
     NoteToFormat("c3", "bookmark", "", 0, 3, <<>>),
     NoteToFormat("c4", "highlight", Uncategorized, 3, 0, <<>>)}

NoteLists == SeqsUpTo(NotesToFormat, MaxRendered)

\* FormatOptions, with the defaults filled in
FormatOptions ==
    [includeMetadata : BOOLEAN, includeLocation : BOOLEAN, includeTags : BOOLEAN,
     groupByChapter : BOOLEAN, sortBy : {"position", "date", "chapter"}]

HeaderBlock == [k |-> "h1", text |-> "reading_notes"]
EmptyBlock  == [k |-> "text", text |-> "no_notes"]
InfoBlock(title, count) == [k |-> "info", title |-> title, count |-> count]
SectionBlock(chapter) == [k |-> "h2", text |-> chapter]

\* what the comparators of sort subtract
SortKey(note, sortBy) == IF sortBy = "position" THEN note.position ELSE note.createdAt

\* Array.prototype.sort is stable: note goes behind every entry whose key is
\* not greater
InsertSorted(sorted, note, sortBy) ==
    LET behind == {i \in 1..Len(sorted) : SortKey(sorted[i], sortBy) <= SortKey(note, sortBy)}
        at     == IF behind = {} THEN 0 ELSE CHOOSE i \in behind : \A j \in behind : j <= i
    IN  SubSeq(sorted, 1, at) \o <<note>> \o SubSeq(sorted, at + 1, Len(sorted))

RECURSIVE SortFrom(_, _, _, _)
SortFrom(list, i, sorted, sortBy) ==
    IF i > Len(list) THEN sorted
    ELSE SortFrom(list, i + 1, InsertSorted(sorted, list[i], sortBy), sortBy)

\* let sortedNotes = [...notes]; sorted only for 'position' and 'date'
SortedNotes(list, sortBy) ==
    IF sortBy \in {"position", "date"} THEN SortFrom(list, 1, <<>>, sortBy) ELSE list

\* one annotation as formatNotes writes it
NoteBlock(note, noteNumber, options) ==
    [k        |-> "note",
     heading  |-> <<note.noteType, noteNumber>>,
     quoted   |-> note.noteType = "highlight",
     content  |-> note.content,
     location |-> IF options.includeLocation
                  THEN (IF note.chapter # "" THEN <<note.chapter>> ELSE <<>>)
                       \o (IF note.position # 0 THEN <<note.position>> ELSE <<>>)
                  ELSE <<>>,
     tags     |-> IF options.includeTags THEN note.tags ELSE <<>>,
     createdAt |-> note.createdAt]

FormatNotesBlocks(list, options) ==
    [i \in 1..Len(list) |-> NoteBlock(list[i], i, options)]

\* groupNotesByChapter with a Map that puts a new chapter in front
RECURSIVE GroupNotesByChapterPrepending(_, _, _)
GroupNotesByChapterPrepending(list, i, chapters) ==
    IF i > Len(list) THEN chapters
    ELSE LET note    == list[i]
             chapter == IF note.chapter # "" THEN note.chapter ELSE Uncategorized
             has     == \E j \in 1..Len(chapters) : chapters[j].chapter = chapter
             set     == IF has THEN chapters
                        ELSE <<[chapter |-> chapter, notes |-> <<>>]>> \o chapters
             pushed  == [j \in 1..Len(set) |->
                            IF set[j].chapter = chapter
                            THEN [set[j] EXCEPT !.notes = Append(@, note)]
                            ELSE set[j]]
         IN  GroupNotesByChapterPrepending(list, i + 1, pushed)

\* groupNotesByChapter: the Map as the sequence of its entries, in insertion
\* order
RECURSIVE GroupNotesByChapter(_, _, _)
GroupNotesByChapter(list, i, chapters) ==
    IF i > Len(list) THEN chapters
    ELSE LET note    == list[i]
             chapter == IF note.chapter # "" THEN note.chapter ELSE Uncategorized
             has     == \E j \in 1..Len(chapters) : chapters[j].chapter = chapter
             set     == IF has THEN chapters
                        ELSE Append(chapters, [chapter |-> chapter, notes |-> <<>>])
             pushed  == [j \in 1..Len(set) |->
                            IF set[j].chapter = chapter
                            THEN [set[j] EXCEPT !.notes = Append(@, note)]
                            ELSE set[j]]
         IN  GroupNotesByChapter(list, i + 1, pushed)

RECURSIVE SectionsFrom(_, _, _)
SectionsFrom(chapters, j, options) ==
    IF j > Len(chapters) THEN <<>>
    ELSE <<SectionBlock(IF chapters[j].chapter # "" THEN chapters[j].chapter
                        ELSE Uncategorized)>>
         \o FormatNotesBlocks(chapters[j].notes, options)
         \o SectionsFrom(chapters, j + 1, options)

\* the part of format and formatBook after the sort
NotesPart(sortedNotes, options) ==
    IF options.groupByChapter
    THEN SectionsFrom(GroupNotesByChapter(sortedNotes, 1, <<>>), 1, options)
    ELSE FormatNotesBlocks(sortedNotes, options)

DefaultFormat(list, options) ==
    IF Len(list) = 0 THEN <<HeaderBlock, EmptyBlock>>
    ELSE <<HeaderBlock>>
         \o (IF options.includeMetadata
             THEN <<InfoBlock(list[1].bookTitle, Len(list))>> ELSE <<>>)
         \o NotesPart(SortedNotes(list, options.sortBy), options)

DefaultFormatBook(data, options) ==
    LET head == <<HeaderBlock>>
                \o (IF options.includeMetadata
                    THEN <<InfoBlock(data.metadata.title, data.metadata.totalNotes)>>
                    ELSE <<>>)
    IN  IF Len(data.notes) = 0 THEN Append(head, EmptyBlock)
        ELSE head \o NotesPart(SortedNotes(data.notes, options.sortBy), options)

\* SimpleMarkdownFormatter: '' for no annotation
SimpleFormat(list) ==
    [i \in 1..Len(list) |->
        [k |-> "plain", quoted |-> list[i].noteType = "highlight",
         content |-> list[i].content]]

SimpleFormatBook(data) == SimpleFormat(data.notes)

FormatterClasses == {"DefaultMarkdownFormatter", "SimpleMarkdownFormatter"}
FormatMethods    == {"format", "formatBook"}

\* the bundle formatBook is given for a list of annotations
BookToFormat(list) ==
    [metadata |-> [title |-> Str("X"), totalNotes |-> Len(list)], notes |-> list]

\* formatter[method](notes or bundle, options)
Format(class, method, list, options) ==
    IF class = "DefaultMarkdownFormatter"
    THEN IF method = "format" THEN DefaultFormat(list, options)
         ELSE DefaultFormatBook(BookToFormat(list), options)
    ELSE IF method = "format" THEN SimpleFormat(list)
         ELSE SimpleFormatBook(BookToFormat(list))

\* A formatter, a method, a list of annotations and options to call it with
InitFormat ==
    /\ notes = EmptyMap
    /\ books = EmptyMap
    /\ disk = EmptyMap
    /\ config = [autoSave |-> FALSE]
    /\ parsers = Parsers
    /\ clock = 0
    /\ run = RunReset({})
    /\ NoImports
    /\ NewQRLoginService
    /\ \E class \in FormatterClasses, method \in FormatMethods,
          list \in NoteLists, options \in FormatOptions :
          last = Call("given", Str(class), NoData,
                      [class |-> class, method |-> method, notes |-> list,
                       options |-> options, doc |-> <<>>],
                      "void", <<>>)

FormatCall ==
    /\ last.op = "given"
    /\ last' = Call("format", last.key, NoData,
                    [last.args EXCEPT !.doc = Format(last.args.class, last.args.method,
                                                     last.args.notes, last.args.options)],
                    "string", <<>>)
    /\ UNCHANGED <<notes, books, disk, config, parsers, clock, run, pending, loginVars>>

SpecFormat == InitFormat /\ [][FormatCall]_vars

----------------------------------------------------------------------------
(* Claims about the formatters *)

Blocks(doc) == {doc[i] : i \in 1..Len(doc)}

\* C21: rendering no annotation gives, for every formatter and for both
\* format([]) and formatBook of a bundle without annotations, a non-empty
\* document that contains the document header.
C21_EmptyRendersHeader ==
    (last.op = "format" /\ last.args.notes = <<>>)
    => /\ last.args.doc # <<>>
       /\ HeaderBlock \in Blocks(last.args.doc)

\* the chapter labels of a list, "" being the label of the annotations
\* without a chapter
ChapterLabels(list) == [i \in 1..Len(list) |-> list[i].chapter]

\* the labels as the section headings show them: the annotations without a
\* chapter go under '未分类'
ShownLabels(list) ==
    [i \in 1..Len(list) |-> IF list[i].chapter = "" THEN Uncategorized ELSE list[i].chapter]

\* the distinct entries of a sequence in first-seen order
RECURSIVE Distinct(_, _, _)
Distinct(labels, i, seen) ==
    IF i > Len(labels) THEN seen
    ELSE Distinct(labels, i + 1,
                  IF \E j \in 1..Len(seen) : seen[j] = labels[i]
                  THEN seen ELSE Append(seen, labels[i]))

\* the sections a document shows: each '## ' heading that is not the book
\* information, with the contents of the annotation blocks that follow it
RECURSIVE DocSections(_, _, _)
DocSections(doc, i, acc) ==
    IF i > Len(doc) THEN acc
    ELSE DocSections(doc, i + 1,
            IF doc[i].k = "h2"
            THEN Append(acc, [heading |-> doc[i].text, contents |-> <<>>])
            ELSE IF doc[i].k = "note" /\ acc # <<>>
            THEN [acc EXCEPT ![Len(acc)].contents = Append(@, doc[i].content)]
            ELSE acc)

\* the sections that the labels of a list call for: one per distinct label,
\* each with the contents of the annotations under that label
LabelSections(list, labels) ==
    LET distinct == Distinct(labels, 1, <<>>)
    IN  [j \in 1..Len(distinct) |->
            LET own == {i \in 1..Len(list) : labels[i] = distinct[j]}
                Nth(n) == CHOOSE i \in own : Cardinality({m \in own : m < i}) = n - 1
            IN  [heading  |-> IF distinct[j] = "" THEN Uncategorized ELSE distinct[j],
                 contents |-> [n \in 1..Cardinality(own) |-> list[Nth(n)].content]]]

\* a document rendered by the default formatter with groupByChapter on
Grouped ==
    /\ last.op = "format"
    /\ last.args.class = "DefaultMarkdownFormatter"
    /\ last.args.options.groupByChapter
    /\ last.args.notes # <<>>

\* C22 as stated: with groupByChapter on, the document has exactly one
\* section heading per distinct chapter label among the annotations (those
\* without a chapter share one placeholder section), the sections come in
\* first-seen order of the sorted list, and each section lists exactly the
\* annotations that carry its label.
C22_Original ==
    Grouped =>
        LET sorted == SortedNotes(last.args.notes, last.args.options.sortBy)
        IN  DocSections(last.args.doc, 1, <<>>)
            = LabelSections(sorted, ChapterLabels(sorted))

\* C22, amended: the same, where an annotation whose chapter label is the
\* placeholder text itself counts as carrying no chapter: it shares the
\* placeholder section with the annotations that have none.
C22_OneSectionPerChapter ==
    Grouped =>
        LET sorted == SortedNotes(last.args.notes, last.args.options.sortBy)
        IN  DocSections(last.args.doc, 1, <<>>)
            = LabelSections(sorted, ShownLabels(sorted))

\* two sections whose order is not the order of the list given, one of them
\* the placeholder section
C22_Witness ==
    /\ Grouped
    /\ Len(DocSections(last.args.doc, 1, <<>>)) = 2
    /\ SortedNotes(last.args.notes, last.args.options.sortBy) # last.args.notes
    /\ DocSections(last.args.doc, 1, <<>>)[1].heading = Uncategorized
    /\ Len(last.args.notes) = MaxRendered

\* the place of a chapter label in lexicographic order, the empty string of
\* an absent chapter first
ChapterRank(chapter) ==
    IF chapter = "" THEN 0
    ELSE IF chapter = "Ch1" THEN 1
    ELSE IF chapter = "Ch2" THEN 2
    ELSE 3

\* the annotation blocks of a document, in order
NoteBlocks(doc) ==
    LET IsNote(block) == block.k = "note"
    IN  SelectSeq(doc, IsNote)

\* the chapter of the annotation a block shows
ChapterOf(block) == (CHOOSE n \in NotesToFormat : n.content = block.content).chapter

\* C28: with sortBy 'chapter', format and formatBook emit the annotations in
\* lexicographic order of their chapter label, an absent chapter comparing as
\* the empty string, whatever the order of the list given.
C28_SortedByChapter ==
    (/\ last.op = "format"
     /\ last.args.class = "DefaultMarkdownFormatter"
     /\ last.args.options.sortBy = "chapter"
     /\ ~last.args.options.groupByChapter)
    => LET shown == NoteBlocks(last.args.doc)
       IN  /\ Len(shown) = Len(last.args.notes)
           /\ \A i, j \in 1..Len(shown) :
                 i < j => ChapterRank(ChapterOf(shown[i])) <= ChapterRank(ChapterOf(shown[j]))

(***************************************************************************)
(* Concurrent imports.  importNotes is an async function: a call is        *)
(* suspended at `await fs.readFile`, at `await parser.parse` and at        *)
(* `await this.saveToStorage`, and other calls run in between.  Each       *)
(* action is the synchronous run of one call from one await to the next.   *)
(***************************************************************************)

\* the importNotes calls of one behaviour
MaxCalls == 2

\* the files given to them: parsed by the first parser, unreadable, or
\* accepted by no parser; and one whose two annotations have the ids 'a' and
\* 'a_1'
ConcurrentFiles ==
    {f \in SourceFiles : \/ ~f.readable
                         \/ f.valid = {"duokan", "wechat"}
                         \/ f.valid = {} /\ f.bundle.notes = <<>>}
    \cup {[readable |-> TRUE, valid |-> {"duokan", "wechat"},
           bundle |-> ParsedBundle(Str("X"), <<Str("a"), Suffix(Str("a"), 1)>>)]}

\* a call, the await it is suspended at ("returned" and "thrown" when it is
\* over) and the title storeParsedData gave its bundle
PendingCall(file, at, storedAs) == [file |-> file, at |-> at, storedAs |-> storedAs]

ImportStep(p, at, storedAs, ret, ev) ==
    /\ pending' = [pending EXCEPT ![p] = PendingCall(pending[p].file, at, storedAs)]
    /\ last' = Call("importNotes", storedAs, pending[p].file.bundle,
                    [call |-> p, at |-> at], ret, ev)

\* importNotes(filePath) up to `await fs.readFile`
ImportBegin(file) ==
    /\ Len(pending) < MaxCalls
    /\ pending' = Append(pending, PendingCall(file, "readFile", NoKey))
    /\ last' = Call("importNotes", NoKey, file.bundle,
                    [call |-> Len(pending) + 1, at |-> "readFile"], "pending", <<>>)
    /\ UNCHANGED <<notes, books, disk, config, parsers, clock, run, loginVars>>

\* from the file read to `await parser.parse`
ImportAfterRead(p) ==
    /\ pending[p].at = "readFile"
    /\ IF ~pending[p].file.readable \/ GetParser(pending[p].file.valid, "") = ""
       THEN ImportStep(p, "thrown", NoKey, "throw", <<ErrorEvent("Failed to import notes")>>)
       ELSE ImportStep(p, "parse", NoKey, "pending", <<>>)
    /\ UNCHANGED <<notes, books, disk, config, parsers, clock, run, loginVars>>

\* from the parse to `await this.saveToStorage`, or to the return
ImportAfterParse(p) ==
    /\ pending[p].at = "parse"
    /\ LET parsedData == pending[p].file.bundle
           r          == StoreParsedData(books, notes, parsedData)
       IN  /\ books' = r.books
           /\ notes' = r.notes
           /\ ImportStep(p, IF config.autoSave THEN "saveToStorage" ELSE "returned",
                         ResolvedTitle(books, parsedData),
                         IF config.autoSave THEN "pending" ELSE "data",
                         <<Event("notes:imported", parsedData.metadata.title,
                                 Len(parsedData.notes))>>)
    /\ UNCHANGED <<disk, config, parsers, clock, run, loginVars>>

\* saveToStorage and the return
ImportAfterSave(p) ==
    /\ pending[p].at = "saveToStorage"
    /\ disk' = SaveToStorage(disk, pending[p].file.bundle, TRUE)
    /\ ImportStep(p, "returned", pending[p].storedAs, "data", <<>>)
    /\ UNCHANGED <<notes, books, config, parsers, clock, run, loginVars>>

InitImports ==
    /\ notes = EmptyMap
    /\ books = EmptyMap
    /\ disk = EmptyMap
    /\ config \in [autoSave : BOOLEAN]
    /\ parsers = Parsers
    /\ clock = 0
    /\ last = Call("new", NoKey, NoData, NoArgs, "void", <<>>)
    /\ run = RunReset({})
    /\ NoImports
    /\ NewQRLoginService

NextImports ==
    \/ \E file \in ConcurrentFiles : ImportBegin(file)
    \/ \E p \in 1..Len(pending) : ImportAfterRead(p)
    \/ \E p \in 1..Len(pending) : ImportAfterParse(p)
    \/ \E p \in 1..Len(pending) : ImportAfterSave(p)

SpecImports == InitImports /\ [][NextImports]_vars

----------------------------------------------------------------------------
(* Claims about concurrent imports *)

\* the annotation contents of the bundle that storeParsedData makes of data
\* in a store that holds nothing else
ContentsAlone(data) ==
    Contents(StoreParsedData(EmptyMap, EmptyMap, data).books[data.metadata.title])

\* the calls that have run storeParsedData
Committed == {p \in 1..Len(pending) : pending[p].at \in {"saveToStorage", "returned"}}

\* C23: under every interleaving of concurrent importNotes calls the
\* collision check and the commit of titles and ids are atomic: every
\* imported bundle is stored under its own title and every annotation under
\* its own id, and no bundle or annotation of one import is overwritten or
\* lost because of another, also when the imports carry the same title and
\* the same annotation ids.
C23_ImportsCommitAtomically ==
    /\ \A p \in Committed :
          LET bookTitle == pending[p].storedAs
          IN  /\ bookTitle \in DOMAIN books
              /\ Contents(books[bookTitle]) = ContentsAlone(pending[p].file.bundle)
              /\ \A i \in 1..Len(books[bookTitle].notes) :
                    books[bookTitle].notes[i].bookTitle = bookTitle
    /\ \A p, q \in Committed : p # q => pending[p].storedAs # pending[q].storedAs
    /\ DOMAIN books = {pending[p].storedAs : p \in Committed}
    /\ \A slot \in Slots(books) :
          LET note == books[slot[1]].notes[slot[2]]
          IN  /\ note.id \in DOMAIN notes
              /\ notes[note.id] = note
              /\ \A other \in Slots(books) \ {slot} :
                    books[other[1]].notes[other[2]].id # note.id
    /\ Cardinality(DOMAIN notes) = Cardinality(Slots(books))

----------------------------------------------------------------------------
(* Claims about what the parsers emit *)

\* C24: no annotation returned by any parser path (JSON, XML, CSV, free
\* text, of DuokanParser and of WeChatParser) has empty content: records
\* whose content is missing or empty are dropped.
C24_NoEmptyContent ==
    (last.op = "parse" /\ last.ret = "data")
    => \A i \in 1..Len(last.data.notes) : last.data.notes[i].content # ""

\* a JSON text whose notes array declares a position in every entry
DeclaresPositions(content) ==
    /\ content.json.t = "object"
    /\ Get(content.json, "notes").t = "array"
    /\ \A i \in 1..Len(Get(content.json, "notes").v) :
          LET entry == Get(content.json, "notes").v[i]
          IN  entry.t = "object" /\ "position" \in DOMAIN entry.v

\* C27: the annotations of a parsed bundle are ordered by their
\* source-declared position whenever the source declares positions: a JSON
\* notes array whose entries carry position values out of array order yields
\* the annotations in ascending position.
C27_OrderedByPosition ==
    (last.op = "parse" /\ last.ret = "data" /\ DeclaresPositions(last.args.content))
    => \A i, j \in 1..Len(last.data.notes) :
          i < j => last.data.notes[i].position <= last.data.notes[j].position

\* a free text given to WeChatParser: parse dispatches it to parseWeChatFormat
\* or to parsePlainText
FreeText(content) ==
    \/ Includes(content, "weread") /\ Includes(content, "thought")
    \/ ~IsValidJSON(content) /\ ~Includes(content, "comma")

\* a line that both scans take for a chapter marker: '章节：...' or '第...章'
ChapterMarker(line) == "chapter:" \in line.has \/ (line.startsDi /\ "zhang" \in line.has)

\* the label of the last chapter marker among the first n lines, "" if none
RECURSIVE ChapterBefore(_, _)
ChapterBefore(lines, n) ==
    IF n = 0 THEN ""
    ELSE IF ChapterMarker(lines[n]) THEN lines[n].rest
    ELSE ChapterBefore(lines, n - 1)

\* C25: in the WeChat free-text scan every emitted annotation carries as its
\* chapter the label of the most recent chapter-marker line that precedes it
\* in the input, empty when none precedes it; a marker line replaces the
\* context for the records that follow and emits no annotation itself.
C25_ChapterContext ==
    (/\ last.op = "parse"
     /\ last.args.parser = "wechat"
     /\ FreeText(last.args.content))
    => LET lines == last.args.content.lines
       IN  /\ last.ret = "data"
           /\ \A k \in 1..Len(last.data.notes) :
                 LET note == last.data.notes[k]
                 IN  /\ note.chapter = JStr(ChapterBefore(lines, note.position))
                     /\ \A i \in 1..Len(lines) :
                           ChapterMarker(lines[i]) => note.content # lines[i].text

\* a line that is an inline marker followed by text: '划线：X', '想法：X',
\* '书签：X'
InlineRecord(line) ==
    /\ ~ChapterMarker(line)
    /\ \E k \in 1..3 : ColonMarkers[k] \in line.has
    /\ line.rest # ""

InlineType(line) ==
    MarkerType(ColonMarkers[CHOOSE k \in 1..3 :
                               /\ ColonMarkers[k] \in line.has
                               /\ \A j \in 1..(k - 1) : ColonMarkers[j] \notin line.has])

\* C26: for every WeChat free-text input, whichever scan parse dispatches it
\* to and also when it carries the product-name header line, each line that
\* is an inline marker followed by non-empty text X yields exactly one
\* annotation with content X and the kind of the marker, and the annotations
\* appear in the order of those lines.
C26_InlineMarkers ==
    (/\ last.op = "parse"
     /\ last.args.parser = "wechat"
     /\ FreeText(last.args.content))
    => LET lines  == last.args.content.lines
           pushed == last.data.notes
       IN  /\ last.ret = "data"
           /\ \A i \in 1..Len(lines) :
                 InlineRecord(lines[i])
                 => Cardinality({k \in 1..Len(pushed) :
                                    /\ pushed[k].position = i - 1
                                    /\ pushed[k].content = lines[i].rest
                                    /\ pushed[k].noteType = InlineType(lines[i])}) = 1
           /\ \A k, m \in 1..Len(pushed) : k < m => pushed[k].position < pushed[m].position

-----------------------------------------------------------------------------
(* QRLoginService: the polling timer, its ticks and the status checks in
   flight.  A timer handle is named by the scene it was started for. *)

MaxPolls == 3     \* maxPolls of startPolling (90 in the source)
MaxScenes == 2    \* scenes the back end hands out

\* a LoginStatus; authData tells whether it carries authData
LoginStatus(status, authData) == [status |-> status, authData |-> authData]

\* the answers of GET /api/auth/qr-status that the callback tells apart, and
\* the 'failed' status that checkLoginStatus makes of a failed request
Answers ==
    {LoginStatus("waiting", FALSE), LoginStatus("success", FALSE),
     LoginStatus("success", TRUE), LoginStatus("failed", FALSE)}

\* emit('status', status); heard tells whether a listener is registered
StatusEvent(status, heard) == [name |-> "status", status |-> status.status, heard |-> heard]

AuthKey == "auth_platform"

\* the fields stopPolling, startPolling work on
Polling(ip, pi, ts) == [isPolling |-> ip, pollingInterval |-> pi, timers |-> ts]

\* stopPolling()
StopPolling(ip, pi, ts) ==
    IF pi # 0
    THEN Polling(FALSE, 0, MapDelete(ts, pi))
    ELSE Polling(ip, pi, ts)

\* startPolling without the test of isPolling
StartPollingUnguarded(ip, pi, ts, scene) ==
    Polling(TRUE, scene, MapSet(ts, scene, [pollCount |-> 0, sceneId |-> scene]))

\* startPolling(sceneId)
StartPolling(ip, pi, ts, scene) ==
    IF ip
    THEN Polling(ip, pi, ts)
    ELSE Polling(TRUE, scene, MapSet(ts, scene, [pollCount |-> 0, sceneId |-> scene]))

SetPolling(p) ==
    /\ isPolling' = p.isPolling
    /\ pollingInterval' = p.pollingInterval
    /\ timers' = p.timers

\* saveAuthData(authData)
SaveAuthData(storage, scene) == MapSet(storage, AuthKey, [scene |-> scene])

\* generateQRCode(), from the answer of POST /api/auth/qr-code on
GenerateQRCode(ok) ==
    /\ sceneId < MaxScenes
    /\ IF ok
       THEN /\ sceneId' = sceneId + 1
            /\ SetPolling(StartPolling(isPolling, pollingInterval, timers, sceneId + 1))
            /\ last' = Call("generateQRCode", NoKey, NoData,
                            NoArgs, "data", <<>>)
       ELSE /\ UNCHANGED <<sceneId, isPolling, pollingInterval, timers>>
            /\ last' = Call("generateQRCode", NoKey, NoData,
                            NoArgs, "throws", <<>>)
    /\ UNCHANGED <<checks, localStorage, listeners>>
    /\ UNCHANGED <<notes, books, disk, config, parsers, clock, run, pending>>

\* the interval callback of timer t, up to `await this.checkLoginStatus`
Tick(t) ==
    /\ t \in DOMAIN timers
    /\ LET pollCount == timers[t].pollCount + 1
       IN  IF pollCount >= MaxPolls
           THEN /\ SetPolling(StopPolling(isPolling, pollingInterval,
                                          MapSet(timers, t, [timers[t] EXCEPT !.pollCount = pollCount])))
                /\ checks' = checks
                /\ last' = Call("tick", NoKey, NoData, [pollCount |-> pollCount],
                                "void", <<StatusEvent(LoginStatus("expired", FALSE), listeners)>>)
           ELSE /\ timers' = MapSet(timers, t, [timers[t] EXCEPT !.pollCount = pollCount])
                /\ checks' = checks \cup {[timer |-> t, poll |-> pollCount,
                                           sceneId |-> timers[t].sceneId]}
                /\ last' = Call("tick", NoKey, NoData, [pollCount |-> pollCount],
                                "pending", <<>>)
                /\ UNCHANGED <<isPolling, pollingInterval>>
    /\ UNCHANGED <<sceneId, localStorage, listeners>>
    /\ UNCHANGED <<notes, books, disk, config, parsers, clock, run, pending>>

\* the interval callback from the answer of the status check c on
CheckDone(c, status) ==
    /\ c \in checks
    /\ checks' = checks \ {c}
    /\ IF status.status = "success" /\ status.authData
       THEN /\ SetPolling(StopPolling(isPolling, pollingInterval, timers))
            /\ localStorage' = SaveAuthData(localStorage, c.sceneId)
       ELSE UNCHANGED <<isPolling, pollingInterval, timers, localStorage>>
    /\ last' = Call("checkDone", NoKey, NoData, NoArgs,
                    "void", <<StatusEvent(status, listeners)>>)
    /\ UNCHANGED <<sceneId, listeners>>
    /\ UNCHANGED <<notes, books, disk, config, parsers, clock, run, pending>>

\* logout(), its finally block
Logout ==
    /\ localStorage' = MapDelete(localStorage, AuthKey)
    /\ SetPolling(StopPolling(isPolling, pollingInterval, timers))
    /\ last' = Call("logout", NoKey, NoData, NoArgs, "void", <<>>)
    /\ UNCHANGED <<sceneId, checks, listeners>>
    /\ UNCHANGED <<notes, books, disk, config, parsers, clock, run, pending>>

\* destroy()
Destroy ==
    /\ SetPolling(StopPolling(isPolling, pollingInterval, timers))
    /\ listeners' = FALSE
    /\ last' = Call("destroy", NoKey, NoData, NoArgs, "void", <<>>)
    /\ UNCHANGED <<sceneId, checks, localStorage>>
    /\ UNCHANGED <<notes, books, disk, config, parsers, clock, run, pending>>

InitLogin ==
    /\ notes = EmptyMap
    /\ books = EmptyMap
    /\ disk = EmptyMap
    /\ config = [autoSave |-> FALSE]
    /\ parsers = Parsers
    /\ clock = 0
    /\ last = Call("new", NoKey, NoData, NoArgs, "void", <<>>)
    /\ run = RunReset({})
    /\ NoImports
    /\ NewQRLoginService

NextLogin ==
    \/ \E ok \in BOOLEAN : GenerateQRCode(ok)
    \/ \E t \in DOMAIN timers : Tick(t)
    \/ \E c \in checks : \E status \in Answers : CheckDone(c, status)
    \/ Logout
    \/ Destroy

SpecLogin == InitLogin /\ [][NextLogin]_vars

\* setInterval keeps calling back while the timer is not cleared
SpecLoginFair == SpecLogin /\ WF_vars(\E t \in DOMAIN timers : Tick(t))

-----------------------------------------------------------------------------
(* Claims about QRLoginService *)

StatusEvents(call) == {k \in 1..Len(call.ev) : call.ev[k].name = "status"}

\* C29: once polling has been stopped (the tick limit was reached and
\* 'expired' emitted, a success status was processed, or logout or destroy
\* was called) no further 'status' event is emitted and no auth data is saved,
\* under every interleaving of ticks with status checks still in flight.
C29_QuietAfterStop ==
    [][(~isPolling /\ sceneId # 0)
       => /\ last'.op \in {"tick", "checkDone"} => StatusEvents(last') = {}
          /\ \A k \in DOMAIN localStorage' :
                k \in DOMAIN localStorage /\ localStorage'[k] = localStorage[k]]_vars

\* C30: at most one polling timer is active at any time, and polling that
\* a successful generateQRCode started always terminates: the timer is
\* cleared and isPolling is false again before it has ticked more than
\* maxPolls times, whatever the status checks answer in between, and it
\* ends with a success status carrying auth data or with 'expired' (or with
\* a logout or destroy).
OneTimer ==
    /\ Cardinality(DOMAIN timers) <= 1
    /\ isPolling <=> DOMAIN timers # {}
    /\ DOMAIN timers = {pollingInterval} \ {0}
    /\ \A t \in DOMAIN timers : timers[t].pollCount < MaxPolls

StopsFor ==
    (isPolling /\ ~isPolling')
    => \/ last'.op = "tick" /\ last'.args.pollCount = MaxPolls
          /\ last'.ev = <<StatusEvent(LoginStatus("expired", FALSE), listeners)>>
       \/ last'.op = "checkDone"
          /\ last'.ev = <<StatusEvent(LoginStatus("success", TRUE), listeners)>>
       \/ last'.op \in {"logout", "destroy"}

C30_PollingTerminates ==
    /\ []OneTimer
    /\ [][StopsFor]_vars
    /\ isPolling ~> ~isPolling

C30_Witness ==
    /\ last.op = "tick"
    /\ last.args.pollCount = MaxPolls
    /\ ~isPolling
    /\ checks # {}

====
